---- MODULE Spec2Model ----
(***************************************************************************)
(* A model of shock/string_space: the string store (StringSpaceInner: the  *)
(* byte buffer and the sorted vector of StringRefInfo), its search         *)
(* operations, the best_completions ranker and the TCP request dispatcher  *)
(* (StringSpaceProtocol).  Strings are sequences of byte values; a &str is *)
(* a sequence of bytes that is well-formed UTF-8, and Chars gives its      *)
(* chars (Unicode scalar values).                                          *)
(***************************************************************************)
EXTENDS Integers, Sequences, FiniteSets, TLC

VARIABLES
    space,          \* StringSpaceInner: [buffer, capacity, used_bytes, string_refs]
    today,          \* what days_since_epoch() returns now
    overflow_checks,\* build profile: TRUE = debug (u16 `+=` panics), FALSE = release (wraps)
    panicked,       \* the thread has panicked
    file,           \* content of the backing file (bytes), or NoFile
    ret,            \* the last public call and what it returned
    nops,           \* number of state-changing calls made so far
    conn            \* the listener and the session being served: [sessions, requests
                    \* read, responses written, connected, accepted]

vars == <<space, today, overflow_checks, panicked, file, ret, nops, conn>>

-----------------------------------------------------------------------------
(* Bytes *)

Ch == [ nl |-> 10, sp |-> 32, comma |-> 44, bang |-> 33,
        d0 |-> 48, d1 |-> 49, d2 |-> 50, d9 |-> 57,
        A |-> 65, B |-> 66, E |-> 69, O |-> 79, R |-> 82,
        a |-> 97, b |-> 98, c |-> 99, d |-> 100, x |-> 120,
        bad |-> 255 ]

\* Option<T>: << >> is None, <<v>> is Some(v)
None == << >>
Some(v) == <<v>>
UnwrapOr(opt, default) == IF opt = None THEN default ELSE opt[1]

\* the element of a one-element set.  In {e : v \in {x}} the model checker
\* binds v to the value of x, so that e, however often it mentions v,
\* computes x once.
One(S) == CHOOSE v \in S : TRUE

Min(a, b) == IF a < b THEN a ELSE b
Max(a, b) == IF a > b THEN a ELSE b

SetMin(S) == CHOOSE m \in S : \A o \in S : m <= o

Repeat(byte, n) == [i \in 1..n |-> byte]

\* <[u8] as Ord>::cmp : lexicographic, a proper prefix is Less
SliceCmp(a, b) ==
    LET n == Min(Len(a), Len(b))
        D == {i \in 1..n : a[i] # b[i]}
    IN  IF D = {}
        THEN IF Len(a) < Len(b) THEN "Less"
             ELSE IF Len(a) > Len(b) THEN "Greater" ELSE "Equal"
        ELSE IF a[SetMin(D)] < b[SetMin(D)] THEN "Less" ELSE "Greater"

StartsWith(s, p) == Len(s) >= Len(p) /\ SubSeq(s, 1, Len(p)) = p

-----------------------------------------------------------------------------
(* UTF-8 *)

\* a continuation byte 10xxxxxx
IsContinuation(b) == b >= 128 /\ b < 192

\* the number of bytes of the char that starts with the lead byte b
\* (0 when b cannot start a char)
CharWidth(b) ==
    IF b < 128 THEN 1
    ELSE IF b >= 194 /\ b <= 223 THEN 2
    ELSE IF b >= 224 /\ b <= 239 THEN 3
    ELSE IF b >= 240 /\ b <= 244 THEN 4
    ELSE 0

\* the values that the second byte of a char may take after the lead byte b
\* (no overlong forms, no surrogates, nothing above U+10FFFF)
SecondByteOk(b, second) ==
    IF b = 224 THEN second >= 160 /\ second < 192
    ELSE IF b = 237 THEN second >= 128 /\ second < 160
    ELSE IF b = 240 THEN second >= 144 /\ second < 192
    ELSE IF b = 244 THEN second >= 128 /\ second < 144
    ELSE IsContinuation(second)

\* str::from_utf8(bytes).is_ok(): every char is a lead byte with its
\* continuation bytes
RECURSIVE ValidUtf8(_)
ValidUtf8(bytes) ==
    IF bytes = << >> THEN TRUE
    ELSE LET w == CharWidth(bytes[1])
         IN  /\ w > 0
             /\ Len(bytes) >= w
             /\ (w >= 2 => SecondByteOk(bytes[1], bytes[2]))
             /\ \A k \in 3..w : IsContinuation(bytes[k])
             /\ ValidUtf8(SubSeq(bytes, w + 1, Len(bytes)))

\* str::chars() of a &str: the Unicode scalar values
RECURSIVE Chars(_)
Chars(bytes) ==
    IF bytes = << >> THEN << >>
    ELSE LET b == bytes[1]
             w == CharWidth(b)
             c == IF w = 1 THEN b
                  ELSE IF w = 2 THEN (b - 192) * 64 + (bytes[2] - 128)
                  ELSE IF w = 3 THEN (b - 224) * 4096 + (bytes[2] - 128) * 64 + (bytes[3] - 128)
                  ELSE (b - 240) * 262144 + (bytes[2] - 128) * 4096
                       + (bytes[3] - 128) * 64 + (bytes[4] - 128)
         IN  <<c>> \o Chars(SubSeq(bytes, w + 1, Len(bytes)))

\* str::is_char_boundary(index), index 0-based
is_char_boundary(bytes, index) ==
    \/ index = 0
    \/ index = Len(bytes)
    \/ (index < Len(bytes) /\ ~IsContinuation(bytes[index + 1]))

\* &s[begin..end] panics unless begin <= end and both are char boundaries
SlicePanics(bytes, begin, end) ==
    ~(begin <= end /\ is_char_boundary(bytes, begin) /\ is_char_boundary(bytes, end))

-----------------------------------------------------------------------------
(* Program constants *)

MIN_CHARS == 3
MAX_CHARS == 50
U16_MAX == 65535

(* Bounds *)

\* INITIAL_HEAP_SIZE is 4096*256 in the source; the model scales it down so
\* that grow_buffer happens within a few inserts.
INITIAL_HEAP_SIZE == 8
MaxTicks == 1
MaxOps == 4
MaxClients == 2

-----------------------------------------------------------------------------
(* StringSpaceInner *)

\* the bytes a StringRefInfo points at: slice::from_raw_parts(buffer.add(pointer), length)
StringBytes(ss, ref) == SubSeq(ss.buffer, ref.pointer + 1, ref.pointer + ref.length)

NewInner ==
    [buffer |-> << >>, capacity |-> INITIAL_HEAP_SIZE, used_bytes |-> 0,
     string_refs |-> << >>]

clear_space(ss) ==
    [ss EXCEPT !.string_refs = << >>, !.used_bytes = 0, !.buffer = << >>]

\* the closure passed by insert_string: |a, b| a.cmp(b)
CompareExact(string, target) == SliceCmp(string, target)

\* the closure passed by find_by_prefix_no_sort
ComparePrefix(string, prefix) ==
    LET prefix_len == Min(Len(string), Len(prefix))
        compare == SliceCmp(SubSeq(string, 1, prefix_len), SubSeq(prefix, 1, prefix_len))
    IN  IF compare = "Equal" /\ Len(string) > Len(prefix) THEN "Greater" ELSE compare

Compare(kind, string, target) ==
    IF kind = "exact" THEN CompareExact(string, target) ELSE ComparePrefix(string, target)

RECURSIVE BinarySearchLoop(_, _, _, _, _)
BinarySearchLoop(ss, target, kind, left, right) ==
    IF left < right
    THEN LET mid == left + (right - left) \div 2
             existing == StringBytes(ss, ss.string_refs[mid + 1])
         IN  IF Compare(kind, existing, target) = "Less"
             THEN BinarySearchLoop(ss, target, kind, mid + 1, right)
             ELSE BinarySearchLoop(ss, target, kind, left, mid)
    ELSE left

\* returns a 0-based index into string_refs
binary_search(ss, target, kind) ==
    BinarySearchLoop(ss, target, kind, 0, Len(ss.string_refs))

\* the loop of grow_buffer without `ref_info.pointer = new_used_bytes`
RECURSIVE GrowCopyKeepPointers(_, _, _, _, _)
GrowCopyKeepPointers(ss, i, new_buffer, new_refs, new_used_bytes) ==
    IF i > Len(ss.string_refs)
    THEN [buffer |-> new_buffer, string_refs |-> new_refs, used_bytes |-> new_used_bytes]
    ELSE LET ref_info == ss.string_refs[i]
         IN  GrowCopyKeepPointers(ss, i + 1,
                      new_buffer \o StringBytes(ss, ref_info),
                      Append(new_refs, ref_info),
                      new_used_bytes + ref_info.length)

\* grow_buffer: allocate capacity + max(capacity, required_size), copy every
\* referenced string in index order, rewrite the pointers
RECURSIVE GrowCopy(_, _, _, _, _)
GrowCopy(ss, i, new_buffer, new_refs, new_used_bytes) ==
    IF i > Len(ss.string_refs)
    THEN [buffer |-> new_buffer, string_refs |-> new_refs, used_bytes |-> new_used_bytes]
    ELSE LET ref_info == ss.string_refs[i]
         IN  GrowCopy(ss, i + 1,
                      new_buffer \o StringBytes(ss, ref_info),
                      Append(new_refs, [ref_info EXCEPT !.pointer = new_used_bytes]),
                      new_used_bytes + ref_info.length)

\* grow_buffer that doubles the capacity whatever required_size is
GrowBufferDoubling(ss, required_size) ==
    LET g == GrowCopy(ss, 1, << >>, << >>, 0)
    IN  [buffer |-> g.buffer, capacity |-> ss.capacity * 2,
         used_bytes |-> g.used_bytes, string_refs |-> g.string_refs]

grow_buffer(ss, required_size) ==
    LET new_capacity == ss.capacity + Max(ss.capacity, required_size)
        g == GrowCopy(ss, 1, << >>, << >>, 0)
    IN  [buffer |-> g.buffer, capacity |-> new_capacity,
         used_bytes |-> g.used_bytes, string_refs |-> g.string_refs]

InsertAt(seq, index, e) ==
    SubSeq(seq, 1, index) \o <<e>> \o SubSeq(seq, index + 1, Len(seq))

\* `frequency += frequency` on a u16: the debug profile panics on overflow,
\* the release profile wraps
AddFrequency(old, delta, checks) ==
    IF old + delta > U16_MAX
    THEN IF checks THEN [panic |-> TRUE, value |-> old]
         ELSE [panic |-> FALSE, value |-> (old + delta) % (U16_MAX + 1)]
    ELSE [panic |-> FALSE, value |-> old + delta]

InsertPositionPrefixCompare(ss, string_bytes) == binary_search(ss, string_bytes, "prefix")

\* position at which insert_string places a new entry
InsertPosition(ss, string_bytes) == binary_search(ss, string_bytes, "exact")

\* insert_string without the search for an equal key: every call adds an entry
InnerInsertAlwaysNew(ss, string, frequency, age_days, now, checks) ==
    LET index == InsertPosition(ss, string)
        length == Len(string)
        g == IF ss.capacity - ss.used_bytes < length THEN grow_buffer(ss, length) ELSE ss
        string_ref_info ==
            [pointer |-> g.used_bytes, length |-> length, frequency |-> frequency,
             age_days |-> IF age_days = None THEN now ELSE age_days[1]]
    IN  [space |-> [g EXCEPT !.buffer = SubSeq(g.buffer, 1, g.used_bytes) \o string,
                             !.string_refs = InsertAt(g.string_refs, index, string_ref_info),
                             !.used_bytes = g.used_bytes + length],
         panic |-> FALSE]

\* StringSpaceInner::insert_string; age_days is an Option<TAgeDays>.
\* The result carries the new store and whether the call panicked.
InnerInsert(ss, string, frequency, age_days, now, checks) ==
    LET index == InsertPosition(ss, string)
        found == /\ index < Len(ss.string_refs)
                 /\ StringBytes(ss, ss.string_refs[index + 1]) = string
    IN  IF found
        THEN LET sum == AddFrequency(ss.string_refs[index + 1].frequency, frequency, checks)
             IN  IF sum.panic
                 THEN [space |-> ss, panic |-> TRUE]
                 ELSE [space |-> [ss EXCEPT !.string_refs[index + 1].frequency = sum.value,
                                            !.string_refs[index + 1].age_days = now],
                       panic |-> FALSE]
        ELSE LET length == Len(string)
                 g == IF ss.capacity - ss.used_bytes < length
                      THEN grow_buffer(ss, length) ELSE ss
                 string_ref_info ==
                     [pointer |-> g.used_bytes, length |-> length,
                      frequency |-> frequency,
                      age_days |-> IF age_days = None THEN now ELSE age_days[1]]
             IN  [space |-> [g EXCEPT !.buffer = SubSeq(g.buffer, 1, g.used_bytes) \o string,
                                      !.string_refs = InsertAt(g.string_refs, index, string_ref_info),
                                      !.used_bytes = g.used_bytes + length],
                  panic |-> FALSE]

LengthOutOfBoundsOffByOne(string) == Len(string) <= MIN_CHARS \/ Len(string) >= MAX_CHARS

\* the length check of StringSpace::insert_string / insert_string_with_age
LengthOutOfBounds(string) == Len(string) < MIN_CHARS \/ Len(string) > MAX_CHARS

\* StringSpace::insert_string and insert_string_with_age
PublicInsert(ss, string, frequency, age_days, now, checks) ==
    IF LengthOutOfBounds(string)
    THEN [space |-> ss, panic |-> FALSE, result |-> "Err(String length out of bounds)"]
    ELSE LET r == InnerInsert(ss, string, frequency, age_days, now, checks)
         IN  [space |-> r.space, panic |-> r.panic,
              result |-> IF r.panic THEN "panic" ELSE "Ok"]

\* a StringRef: an owned copy of the bytes with the metadata
MakeStringRef(ss, ref_info) ==
    [string |-> StringBytes(ss, ref_info),
     frequency |-> ref_info.frequency, age_days |-> ref_info.age_days]

get_all_strings(ss) ==
    [i \in 1..Len(ss.string_refs) |-> MakeStringRef(ss, ss.string_refs[i])]

\* slice::sort_by, a stable sort; before[i][j] says that the comparator
\* orders s[i] before s[j] (Ordering::Less)
StableSort(s, before) ==
    One({ LET Rank(i) == Cardinality({j \in 1..Len(sv) :
                            \/ bv[j][i]
                            \/ (~bv[i][j] /\ j < i)})
          IN  [p \in 1..Len(sv) |-> sv[CHOOSE i \in 1..Len(sv) : Rank(i) = p - 1]]
          : sv \in {s}, bv \in {before} })

\* a comparator that calls every two records Equal
FrequencyUnordered(s) ==
    [i \in 1..Len(s) |-> [j \in 1..Len(s) |-> FALSE]]

\* |a, b| b.meta.frequency.cmp(&a.meta.frequency)
FrequencyDescending(s) ==
    [i \in 1..Len(s) |-> [j \in 1..Len(s) |-> s[i].frequency > s[j].frequency]]

SortByFrequency(s) == StableSort(s, FrequencyDescending(s))

\* the test of the scan: &string_bytes[..search_len] == &search_bytes[..search_len]
PrefixMatchesVacuous(string_bytes, search_bytes) ==
    SubSeq(search_bytes, 1, Len(search_bytes)) = SubSeq(search_bytes, 1, Len(search_bytes))

PrefixMatches(string_bytes, search_bytes) ==
    SubSeq(string_bytes, 1, Len(search_bytes)) = SubSeq(search_bytes, 1, Len(search_bytes))

\* the scan of find_by_prefix_no_sort from start_index on
RECURSIVE PrefixScan(_, _, _, _, _)
PrefixScan(ss, search_bytes, index, matched_once, results) ==
    IF index >= Len(ss.string_refs)
    THEN results
    ELSE LET ref_info == ss.string_refs[index + 1]
             string_bytes == StringBytes(ss, ref_info)
             search_len == Len(search_bytes)
         IN  IF Len(string_bytes) < search_len
             THEN PrefixScan(ss, search_bytes, index + 1, matched_once, results)
             ELSE IF PrefixMatches(string_bytes, search_bytes)
             THEN PrefixScan(ss, search_bytes, index + 1, TRUE,
                             Append(results, MakeStringRef(ss, ref_info)))
             ELSE IF matched_once
             THEN results
             ELSE PrefixScan(ss, search_bytes, index + 1, matched_once, results)

\* where find_by_prefix_no_sort starts its scan
PrefixStartIndex(ss, search_bytes) == binary_search(ss, search_bytes, "prefix")

find_by_prefix_no_sort(ss, search_prefix) ==
    IF search_prefix = << >>
    THEN << >>
    ELSE PrefixScan(ss, search_prefix, PrefixStartIndex(ss, search_prefix), FALSE, << >>)

find_by_prefix(ss, search_prefix) ==
    SortByFrequency(find_by_prefix_no_sort(ss, search_prefix))

-----------------------------------------------------------------------------
(* Scoring primitives.  An f64 score is modelled in fixed point, as an      *)
(* integer number of 1/SCALE units; the raw scores that the code compares  *)
(* with each other (match spans, similarities) are kept as exact fractions *)
(* [n, d] and compared by cross-multiplication.                            *)

SCALE == 10000

Frac(n, d) == [n |-> n, d |-> d]
FracLess(x, y) == x.n * y.d < y.n * x.d
FracEq(x, y) == x.n * y.d = y.n * x.d
FracSub(x, y) == Frac(x.n * y.d - y.n * x.d, x.d * y.d)
\* the fraction as a fixed-point number (truncated)
ToFixed(x) == (x.n * SCALE) \div x.d

Clamp(v, lo, hi) == IF v < lo THEN lo ELSE IF v > hi THEN hi ELSE v

\* f64::ln of an integer x >= 1, in fixed point: x = 2^k * m with m in [1, 2),
\* ln x = k ln 2 + 2 atanh((m - 1) / (m + 1))
RECURSIVE FloorLog2(_)
FloorLog2(x) == IF x < 2 THEN 0 ELSE 1 + FloorLog2(x \div 2)

RECURSIVE Pow2(_)
Pow2(k) == IF k = 0 THEN 1 ELSE 2 * Pow2(k - 1)

LnFixed(x) ==
    LET k == FloorLog2(x)
        p == Pow2(k)
        z == ((x - p) * SCALE) \div (x + p)
        z2 == (z * z) \div SCALE
        z3 == (z2 * z) \div SCALE
        z5 == (z3 * z2) \div SCALE
        z7 == (z5 * z2) \div SCALE
    IN  (k * 6931 * SCALE) \div 10000 + 2 * (z + z3 \div 3 + z5 \div 5 + z7 \div 7)

\* is_subsequence / is_subsequence_chars: the char indices (0-based) in
\* candidate of the greedy match of query, or None.  query and candidate are
\* sequences of chars; qi is the next query char (1-based), i the next
\* candidate position (1-based).
RECURSIVE SubsequenceLoop(_, _, _, _, _)
SubsequenceLoop(query, candidate, qi, i, match_indices) ==
    IF qi > Len(query) THEN None          \* current_char is None from the start
    ELSE IF i > Len(candidate) THEN None
    ELSE IF candidate[i] = query[qi]
         THEN IF qi = Len(query)
              THEN Some(Append(match_indices, i - 1))
              ELSE SubsequenceLoop(query, candidate, qi + 1, i + 1, Append(match_indices, i - 1))
         ELSE SubsequenceLoop(query, candidate, qi, i + 1, match_indices)

is_subsequence(query, candidate) ==
    SubsequenceLoop(Chars(query), Chars(candidate), 1, 1, << >>)

\* score_match_span: span_length + candidate_length * 0.1, as a fraction
score_match_span(match_indices, candidate) ==
    LET span_length == match_indices[Len(match_indices)] - match_indices[1] + 1
    IN  Frac(span_length * 10 + Len(candidate), 10)

RECURSIVE SumGaps(_, _)
SumGaps(idx, i) == IF i > Len(idx) THEN 0 ELSE (idx[i] - idx[i - 1]) + SumGaps(idx, i + 1)

\* a fraction with denominator 0 stands for the f64 NaN
IsNaN(x) == x.d = 0

\* score_match_span_chars, for a query that is a subsequence of the
\* candidate: (sum of gaps / (k - 1)) / candidate length in chars.
\* A one-char query divides 0.0 by 0.0: NaN.
score_match_span_chars(query, candidate) ==
    LET m == is_subsequence(query, candidate)
    IN  IF m = None THEN Frac(0, 1)
        ELSE IF Len(m[1]) = 1 THEN Frac(0, 0)
        ELSE Frac(SumGaps(m[1], 2), (Len(m[1]) - 1) * Len(Chars(candidate)))

should_skip_candidate(candidate_len, query_len) ==
    \/ candidate_len < query_len
    \/ (query_len <= 2 /\ candidate_len > query_len * 8)
    \/ (query_len <= 3 /\ candidate_len > query_len * 5)
    \/ (query_len > 3 /\ candidate_len > query_len * 4)

should_skip_candidate_fuzzy(candidate_len, query_len) ==
    \/ candidate_len < query_len
    \/ (query_len <= 2 /\ candidate_len > query_len * 15)
    \/ (query_len <= 3 /\ candidate_len > query_len * 12)
    \/ (query_len > 3 /\ candidate_len > query_len * 8)

\* normalize_fuzzy_score(raw, min, max) in fixed point; raw, min, max are fractions
normalize_fuzzy_score(raw_score, min_score, max_score) ==
    LET range == FracSub(max_score, min_score)
    IN  IF range.n <= 0
        THEN SCALE \div 2
        ELSE LET above == FracSub(raw_score, min_score)
                 \* (raw - min) / range
                 ratio == Frac(above.n * range.d, above.d * range.n)
             IN  Clamp(SCALE - ToFixed(ratio), 0, SCALE)

\* Jaro similarity (the standard definition): characters match when equal
\* and at most max(|a|, |b|) / 2 - 1 positions apart; each character of b is
\* matched at most once.  JaroMatch gives the matched positions of a (in
\* order) and the position of b each one is matched with.
RECURSIVE JaroMatch(_, _, _, _, _)
JaroMatch(a, b, i, used, pairs) ==
    IF i > Len(a) THEN pairs
    ELSE LET md == Max(Max(Len(a), Len(b)) \div 2 - 1, 0)
             C == {j \in 1..Len(b) : /\ j >= i - md /\ j <= i + md
                                      /\ j \notin used /\ b[j] = a[i]}
         IN  IF C = {} THEN JaroMatch(a, b, i + 1, used, pairs)
             ELSE JaroMatch(a, b, i + 1, used \cup {SetMin(C)}, Append(pairs, <<i, SetMin(C)>>))

\* the k-th smallest element of a set of integers
RECURSIVE KthSmallest(_, _)
KthSmallest(S, k) == IF k = 1 THEN SetMin(S) ELSE KthSmallest(S \ {SetMin(S)}, k - 1)

\* Jaro as a fraction: (m/|a| + m/|b| + (m - t/2)/m) / 3 with t the number of
\* matched characters that are out of order
JaroValue(m, t, la, lb) ==
    IF m = 0 THEN Frac(0, 1)
    ELSE Frac(2 * m * m * lb + 2 * m * m * la + (2 * m - t) * la * lb, 6 * m * la * lb)

JaroTranspositions(a, b, pairs) ==
    Cardinality({k \in 1..Len(pairs) :
                    a[pairs[k][1]] # b[KthSmallest({pairs[n][2] : n \in 1..Len(pairs)}, k)]})

jaro(a, b) ==
    IF Len(a) = 0 /\ Len(b) = 0 THEN Frac(1, 1)
    ELSE IF Len(a) = 0 \/ Len(b) = 0 THEN Frac(0, 1)
    ELSE One({ JaroValue(Len(pairs), JaroTranspositions(a, b, pairs), Len(a), Len(b))
               : pairs \in {JaroMatch(a, b, 1, {}, << >>)} })

CommonPrefixLen(a, b) ==
    LET n == Min(Len(a), Len(b))
        D == {i \in 1..n : a[i] # b[i]}
    IN  IF D = {} THEN n ELSE SetMin(D) - 1

\* Jaro-Winkler: jaro + 0.1 * min(common prefix, 4) * (1 - jaro)
jaro_winkler(a, b) ==
    One({ Frac(10 * j.n + l * (j.d - j.n), 10 * j.d)
          : j \in {jaro(a, b)}, l \in {Min(CommonPrefixLen(a, b), 4)} })

\* str::find(query): the 0-based position of the first occurrence, or None
FindSubstring(candidate, query) ==
    LET P == {i \in 0..(Len(candidate) - Len(query)) :
                 SubSeq(candidate, i + 1, i + Len(query)) = query}
    IN  IF P = {} THEN None ELSE Some(SetMin(P))

\* core::unicode::Cased, for the chars up to U+00FF and the Greek letters
\* U+0391..U+03C9
Cased(c) ==
    \/ (c >= 65 /\ c <= 90) \/ (c >= 97 /\ c <= 122)
    \/ c \in {170, 181, 186}
    \/ (c >= 192 /\ c <= 255 /\ c \notin {215, 247})
    \/ (c >= 913 /\ c <= 969 /\ c # 930)

\* core::unicode::Case_Ignorable, for the chars up to U+00FF
Case_Ignorable(c) == c \in {39, 46, 58, 94, 96, 168, 173, 175, 180, 183, 184}

\* case_ignorable_then_cased of str::to_lowercase
RECURSIVE case_ignorable_then_cased(_)
case_ignorable_then_cased(chars) ==
    IF chars = << >> THEN FALSE
    ELSE IF Case_Ignorable(Head(chars)) THEN case_ignorable_then_cased(Tail(chars))
    ELSE Cased(Head(chars))

Reverse(s) == [i \in 1..Len(s) |-> s[Len(s) + 1 - i]]

\* map_uppercase_sigma of str::to_lowercase: the capital sigma at the
\* 0-based byte index i is word-final (Final_Sigma) when a cased letter comes
\* before it and none comes after it
is_word_final(from, i) ==
    /\ case_ignorable_then_cased(Reverse(Chars(SubSeq(from, 1, i))))
    /\ ~case_ignorable_then_cased(Chars(SubSeq(from, i + 3, Len(from))))

\* the byte that str::to_lowercase writes for the byte at the 1-based
\* position k: ASCII A..Z; U+00C0..U+00DE (C3 80..9E) to U+00E0..U+00FE;
\* the Greek capitals U+0391..U+039F (CE 91..9F) to U+03B1..U+03BF and
\* U+03A0..U+03AB (CE A0..AB) to U+03C0..U+03CB (CF 80..8B), but
\* U+03A3 (capital sigma) to U+03C2 (final sigma, CF 82) where it is
\* word-final.  Every other char of the model keeps its bytes
LowerByte(s, k) ==
    LET b == s[k]
        prev == IF k > 1 THEN s[k - 1] ELSE 0
        next == IF k < Len(s) THEN s[k + 1] ELSE 0
    IN  IF b >= 65 /\ b <= 90 THEN b + 32
        ELSE IF prev = 195 /\ b >= 128 /\ b <= 158 /\ b # 151 THEN b + 32
        ELSE IF b = 206 /\ next >= 160 /\ next <= 171 /\ next # 162 THEN 207
        ELSE IF prev = 206 /\ b = 163
             THEN IF is_word_final(s, k - 2) THEN 130 ELSE 131
        ELSE IF prev = 206 /\ b >= 145 /\ b <= 159 THEN b + 32
        ELSE IF prev = 206 /\ b >= 160 /\ b <= 171 /\ b # 162 THEN b - 32
        ELSE b

\* str::to_lowercase
ToLower(s) == [k \in 1..Len(s) |-> LowerByte(s, k)]

-----------------------------------------------------------------------------
(* Search operations *)

Filter(s, Keep) ==
    One({ LET F[i \in 0..Len(sv)] ==
                  IF i = 0 THEN << >>
                  ELSE IF kv[i] THEN Append(F[i - 1], sv[i]) ELSE F[i - 1]
          IN  F[Len(sv)]
          : sv \in {s}, kv \in {Keep} })

Take(s, n) == SubSeq(s, 1, Min(n, Len(s)))

\* str::contains
Contains(string, substring) == FindSubstring(string, substring) # None

find_with_substring(ss, substring) ==
    IF substring = << >> THEN << >>
    ELSE One({ SortByFrequency(Filter(all, [i \in 1..Len(all) |-> Contains(all[i].string, substring)]))
               : all \in {get_all_strings(ss)} })

\* a.1.partial_cmp(&b.1): ascending score
ScoreAscending(m) ==
    [i \in 1..Len(m) |-> [j \in 1..Len(m) |-> FracLess(m[i].score, m[j].score)]]

\* what a search hands back: its matches, or a panic that unwinds the caller
Returned(matches) == [panic |-> FALSE, matches |-> matches]
SearchPanic == [panic |-> TRUE, matches |-> << >>]

\* StringSpaceInner::fuzzy_subsequence_search; query[0..1] panics when byte 1
\* is inside the first char
fuzzy_subsequence_search(ss, query) ==
    IF query = << >> THEN Returned(<< >>)
    ELSE IF SlicePanics(query, 0, 1) THEN SearchPanic
    ELSE Returned(One({ [i \in 1..Len(sorted) |-> sorted[i].string_ref]
               : sorted \in
                   { Take(StableSort(matches, ScoreAscending(matches)), 10)
                     : matches \in
                         { [i \in 1..Len(hits) |->
                              [string_ref |-> hits[i],
                               score |-> score_match_span(is_subsequence(query, hits[i].string)[1],
                                                          hits[i].string)]]
                           : hits \in
                               { Filter(possibilities,
                                     [i \in 1..Len(possibilities) |->
                                         is_subsequence(query, possibilities[i].string) # None])
                                 : possibilities \in
                                     {find_by_prefix_no_sort(ss, SubSeq(query, 1, 1))} } } } }))

\* sort_by_key(Reverse(score)), sort_by_key(Reverse(age_days)), sort_by_key(Reverse(frequency))
ScoreDescending(m) ==
    [i \in 1..Len(m) |-> [j \in 1..Len(m) |-> FracLess(m[j].score, m[i].score)]]
AgeDescending(m) ==
    [i \in 1..Len(m) |-> [j \in 1..Len(m) |-> m[i].string_ref.age_days > m[j].string_ref.age_days]]
MatchFrequencyDescending(m) ==
    [i \in 1..Len(m) |-> [j \in 1..Len(m) |-> m[i].string_ref.frequency > m[j].string_ref.frequency]]

\* get_close_matches(word, possibilities, n, cutoff); cutoff is a fraction
get_close_matches(word, possibilities, n, cutoff) ==
    One({ [i \in 1..Len(by_freq) |-> by_freq[i].string_ref]
          : by_freq \in
              { StableSort(by_age, MatchFrequencyDescending(by_age))
                : by_age \in
                    { StableSort(by_score, AgeDescending(by_score))
                      : by_score \in
                          { Take(StableSort(matches, ScoreDescending(matches)), n)
                            : matches \in
                                { Filter(scored, [i \in 1..Len(scored) |->
                                                    FracLess(cutoff, scored[i].score)])
                                  : scored \in
                                      { [i \in 1..Len(possibilities) |->
                                           [string_ref |-> possibilities[i],
                                            score |-> jaro_winkler(word, possibilities[i].string)]] }
                                } } } } })

\* StringSpace::get_similar_words; cutoff is an Option of a fraction;
\* word[0..1] panics when byte 1 is inside the first char
get_similar_words(ss, word, cutoff) ==
    IF Len(word) < 2 THEN Returned(<< >>)
    ELSE IF SlicePanics(word, 0, 1) THEN SearchPanic
    ELSE Returned(get_close_matches(word, find_by_prefix_no_sort(ss, SubSeq(word, 1, 1)), 15,
                                    UnwrapOr(cutoff, Frac(7, 10))))

-----------------------------------------------------------------------------
(* The completion ranker *)

\* char::is_control: the general category Cc, U+0000..U+001F and
\* U+007F..U+009F
IsControl(c) == c < 32 \/ (c >= 127 /\ c <= 159)

\* char::is_alphanumeric (Alphabetic, or general category Nd, Nl, No), for
\* the chars up to U+00FF; the chars above U+00FF that the model's queries
\* hold (U+FFFD) are not alphanumeric
IsAlphanumeric(c) ==
    \/ (c >= 48 /\ c <= 57) \/ (c >= 65 /\ c <= 90) \/ (c >= 97 /\ c <= 122)
    \/ c \in {170, 178, 179, 181, 185, 186, 188, 189, 190}
    \/ (c >= 192 /\ c <= 255 /\ c \notin {215, 247})

\* '\u{FFFD}'
REPLACEMENT_CHARACTER == 65533

\* validate_query: TRUE when it returns Ok(()).  query.len() is the length
\* in bytes, query.chars() the chars
validate_query(query) ==
    /\ query # << >>
    /\ \A i \in 1..Len(Chars(query)) : ~IsControl(Chars(query)[i])
    /\ (Len(query) = 1 => \A i \in 1..Len(Chars(query)) : IsAlphanumeric(Chars(query)[i]))
    /\ Len(query) <= MAX_CHARS
    /\ \A i \in 1..Len(Chars(query)) : Chars(query)[i] # REPLACEMENT_CHARACTER

\* QueryLengthCategory::from_query
QueryLengthCategory(query) ==
    IF Len(query) >= 1 /\ Len(query) <= 2 THEN "VeryShort"
    ELSE IF Len(query) >= 3 /\ Len(query) <= 4 THEN "Short"
    ELSE IF Len(query) >= 5 /\ Len(query) <= 6 THEN "Medium"
    ELSE "Long"

\* the orig_* literals of AlgorithmWeights::for_category, in fixed point
OrigWeights(category) ==
    LET Pct(p) == (p * SCALE) \div 100
    IN  CASE category = "VeryShort" ->
               [prefix |-> Pct(45), fuzzy |-> Pct(35), jaro |-> Pct(15), substring |-> Pct(5)]
          [] category = "Short" ->
               [prefix |-> Pct(40), fuzzy |-> Pct(30), jaro |-> Pct(20), substring |-> Pct(10)]
          [] category = "Medium" ->
               [prefix |-> Pct(35), fuzzy |-> Pct(25), jaro |-> Pct(25), substring |-> Pct(15)]
          [] OTHER ->
               [prefix |-> Pct(25), fuzzy |-> Pct(20), jaro |-> Pct(35), substring |-> Pct(20)]

\* let fuzzy_multiplier = 1.; let jaro_multiplier = 0.0;
fuzzy_multiplier == SCALE
jaro_multiplier == 0

\* AlgorithmWeights::for_category
AlgorithmWeights(category) ==
    LET orig == OrigWeights(category)
        fuzzy_subseq == (orig.fuzzy * fuzzy_multiplier) \div SCALE
        jaro_w == (orig.jaro * jaro_multiplier) \div SCALE
        remaining == SCALE - (fuzzy_subseq + jaro_w)
        sum_others == orig.prefix + orig.substring
    IN  [prefix |-> (orig.prefix * remaining) \div sum_others,
         fuzzy_subseq |-> fuzzy_subseq,
         jaro_winkler |-> jaro_w,
         substring |-> (orig.substring * remaining) \div sum_others]

get_dynamic_weights(query) == AlgorithmWeights(QueryLengthCategory(query))

calculate_weighted_score(prefix_score, fuzzy_score, jaro_score, substring_score, query) ==
    LET weights == get_dynamic_weights(query)
    IN  (weights.prefix * prefix_score + weights.fuzzy_subseq * fuzzy_score
         + weights.jaro_winkler * jaro_score + weights.substring * substring_score) \div SCALE

\* apply_metadata_adjustments; now is days_since_epoch()
apply_metadata_adjustments(weighted_score, frequency, age_days, candidate_len, query_len, max_len, now) ==
    LET frequency_factor == SCALE + LnFixed(frequency + 1) \div 10
        age_factor == SCALE + (age_days * SCALE) \div (now * 20)
        length_penalty == IF candidate_len > query_len * 3
                          THEN SCALE - ((candidate_len - query_len) * SCALE) \div (max_len * 10)
                          ELSE SCALE
        final_score == (((((weighted_score * frequency_factor) \div SCALE) * age_factor) \div SCALE)
                         * length_penalty) \div SCALE
    IN  Clamp(final_score, 0, 2 * SCALE)

\* calculate_prefix_score: Some(normalized score) or None
calculate_prefix_score(string_ref, query) ==
    IF StartsWith(string_ref.string, query) THEN Some(SCALE)
    ELSE IF StartsWith(ToLower(string_ref.string), ToLower(query)) THEN Some((9999 * SCALE) \div 10000)
    ELSE None

NewCandidate(string_ref, algorithm, normalized_score) ==
    [string_ref |-> string_ref, algorithm |-> algorithm,
     normalized_score |-> normalized_score, alternative_scores |-> << >>, final_score |-> 0]

\* scored_prefix_search
scored_prefix_search(ss, query) ==
    LET matches == find_by_prefix(ss, query)
        kept == Filter(matches, [i \in 1..Len(matches) |->
                                    calculate_prefix_score(matches[i], query) # None])
    IN  [i \in 1..Len(kept) |->
            NewCandidate(kept[i], "Prefix", calculate_prefix_score(kept[i], query)[1])]

\* score_fuzzy_subsequence: Some(raw score) or None
score_fuzzy_subsequence(string_ref, query) ==
    IF should_skip_candidate_fuzzy(Len(string_ref.string), Len(query)) THEN None
    ELSE IF is_subsequence(query, string_ref.string) = None THEN None
    ELSE Some(score_match_span_chars(query, string_ref.string))

FracMin(S) == CHOOSE x \in S : \A y \in S : ~FracLess(y, x)
FracMax(S) == CHOOSE x \in S : \A y \in S : ~FracLess(x, y)

\* the (min_score, max_score) range that fuzzy_subsequence_full_database
\* normalizes with, from the raw scores collected
FuzzyRange(raw_scores) ==
    One({ LET diff == FracSub(hi, lo)
          IN  IF diff.n = 0
              THEN IF Len(raw_scores) > 1
                   THEN [min |-> Frac(0, 1), max |-> Frac(1, 1)]
                   ELSE [min |-> Frac(lo.n - lo.d, lo.d), max |-> Frac(hi.n + hi.d, hi.d)]
              ELSE IF diff.n * 10 < diff.d
              THEN \* mid - 0.5, mid + 0.5 with mid = (min + max) / 2
                   LET mid2 == Frac(lo.n * hi.d + hi.n * lo.d, lo.d * hi.d)  \* min + max
                   IN  [min |-> Frac(mid2.n - mid2.d, 2 * mid2.d),
                        max |-> Frac(mid2.n + mid2.d, 2 * mid2.d)]
              ELSE [min |-> lo, max |-> hi]
          : lo \in {FracMin({raw_scores[i] : i \in 1..Len(raw_scores)})},
            hi \in {FracMax({raw_scores[i] : i \in 1..Len(raw_scores)})} })

\* results.push(..); if results.len() >= target_count * 2 { break; }
TakeUntilEnough(accepted, target_count) == Take(accepted, Max(target_count * 2, 1))

\* the first pass of fuzzy_subsequence_full_database: the vector `scores`
FuzzyScores(all_strings, query) ==
    One({ [i \in 1..Len(hits) |-> [string_ref |-> hits[i].string_ref, score |-> hits[i].score[1]]]
          : hits \in { Filter(scored, [i \in 1..Len(scored) |-> scored[i].score # None])
                       : scored \in { [i \in 1..Len(all_strings) |->
                                         [string_ref |-> all_strings[i],
                                          score |-> score_fuzzy_subsequence(all_strings[i], query)]] } } })

\* the second pass of fuzzy_subsequence_full_database
FuzzyNormalized(scores, range, target_count, score_threshold) ==
    One({ TakeUntilEnough(
              Filter(cands, [i \in 1..Len(cands) |-> cands[i].normalized_score >= score_threshold]),
              target_count)
          : cands \in { [i \in 1..Len(scores) |->
                           NewCandidate(scores[i].string_ref, "FuzzySubseq",
                               normalize_fuzzy_score(scores[i].score, range.min, range.max))] } })

\* StringSpaceInner::fuzzy_subsequence_full_database; score_threshold in fixed point
fuzzy_subsequence_full_database(ss, query, target_count, score_threshold) ==
    IF query = << >> THEN << >>
    ELSE One({ IF scores = << >> THEN << >>
               \* the raw scores of a one-char query are all NaN: f64::min and
               \* f64::max skip them, normalize_fuzzy_score returns NaN and
               \* `NaN >= score_threshold` is false for every candidate
               ELSE IF \A i \in 1..Len(scores) : IsNaN(scores[i].score) THEN << >>
               ELSE One({ FuzzyNormalized(scores, range, target_count, score_threshold)
                          : range \in {FuzzyRange([i \in 1..Len(scores) |-> scores[i].score])} })
               : scores \in {FuzzyScores(get_all_strings(ss), query)} })

NormalizedDescending(c) ==
    [i \in 1..Len(c) |-> [j \in 1..Len(c) |-> c[i].normalized_score > c[j].normalized_score]]

\* the loop of jaro_winkler_full_database: the candidates in index order
JaroWinklerCandidates(all_strings, query, similarity_threshold) ==
    One({ [i \in 1..Len(hits) |-> NewCandidate(hits[i].string_ref, "JaroWinkler", ToFixed(hits[i].similarity))]
          : hits \in { Filter(scored, [i \in 1..Len(scored) |->
                                /\ ~scored[i].skip
                                /\ ~FracLess(scored[i].similarity, similarity_threshold)])
                       : scored \in { [i \in 1..Len(all_strings) |->
                                         [string_ref |-> all_strings[i],
                                          skip |-> should_skip_candidate(Len(all_strings[i].string), Len(query)),
                                          similarity |-> jaro_winkler(query, all_strings[i].string)]] } } })

\* StringSpaceInner::jaro_winkler_full_database; similarity_threshold is a fraction
jaro_winkler_full_database(ss, query, target_count, similarity_threshold) ==
    One({ StableSort(results, NormalizedDescending(results))
          : results \in { TakeUntilEnough(
                              JaroWinklerCandidates(get_all_strings(ss), query, similarity_threshold),
                              target_count) } })

\* add_unique_candidates
RECURSIVE add_unique_candidates(_, _)
add_unique_candidates(candidates, all_candidates) ==
    IF candidates = << >> THEN all_candidates
    ELSE LET c == Head(candidates)
             seen == {all_candidates[i].string_ref.string : i \in 1..Len(all_candidates)}
         IN  add_unique_candidates(Tail(candidates),
                 IF c.string_ref.string \in seen THEN all_candidates
                 ELSE Append(all_candidates, c))

\* progressive_algorithm_execution
progressive_algorithm_execution(ss, query, limit) ==
    LET jaro_threshold == IF Len(query) <= 2 THEN Frac(6, 10) ELSE Frac(7, 10)
    IN  One({ add_unique_candidates(jaro_candidates,
                  add_unique_candidates(fuzzy_candidates,
                      add_unique_candidates(prefix_candidates, << >>)))
              : prefix_candidates \in {Take(scored_prefix_search(ss, query), limit)},
                fuzzy_candidates \in {fuzzy_subsequence_full_database(ss, query, limit, 0)},
                jaro_candidates \in {jaro_winkler_full_database(ss, query, limit, jaro_threshold)} })

\* the merge loop of merge_and_score_candidates: one candidate per string,
\* in order of first appearance
RECURSIVE MergeLoop(_, _)
MergeLoop(candidates, merged) ==
    IF candidates = << >> THEN merged
    ELSE LET c == Head(candidates)
             at == {i \in 1..Len(merged) : merged[i].string_ref.string = c.string_ref.string}
         IN  MergeLoop(Tail(candidates),
                IF at = {} THEN Append(merged, c)
                ELSE LET i == CHOOSE k \in at : TRUE
                         existing == merged[i]
                     IN  [merged EXCEPT ![i] =
                            IF c.normalized_score > existing.normalized_score
                            THEN [existing EXCEPT
                                    !.alternative_scores = Append(@, [algorithm |-> existing.algorithm,
                                                                      normalized_score |-> existing.normalized_score]),
                                    !.algorithm = c.algorithm,
                                    !.normalized_score = c.normalized_score]
                            ELSE [existing EXCEPT
                                    !.alternative_scores = Append(@, [algorithm |-> c.algorithm,
                                                                      normalized_score |-> c.normalized_score])]])

\* the orders in which a HashMap of n entries can hand out its values
\* (std's RandomState seeds every map differently)
HashMapOrders(n) == {f \in [1..n -> 1..n] : \A i, j \in 1..n : f[i] = f[j] => i = j}

\* the best score that the candidate has for the algorithm
AlgorithmScore(candidate, algorithm) ==
    LET primary == IF candidate.algorithm = algorithm THEN candidate.normalized_score ELSE 0
        alts == {candidate.alternative_scores[i].normalized_score :
                    i \in {k \in 1..Len(candidate.alternative_scores) :
                              candidate.alternative_scores[k].algorithm = algorithm}}
    IN  CHOOSE m \in alts \cup {primary} : \A x \in alts \cup {primary} : x <= m

\* get_max_string_length
get_max_string_length(ss) ==
    LET all == get_all_strings(ss)
    IN  IF all = << >> THEN 0
        ELSE CHOOSE m \in {Len(all[i].string) : i \in 1..Len(all)} :
                \A i \in 1..Len(all) : Len(all[i].string) <= m

\* calculate_final_score
calculate_final_score(candidate, query, ss, now) ==
    LET weighted_score == calculate_weighted_score(
                              AlgorithmScore(candidate, "Prefix"),
                              AlgorithmScore(candidate, "FuzzySubseq"),
                              AlgorithmScore(candidate, "JaroWinkler"),
                              AlgorithmScore(candidate, "Substring"), query)
    IN  apply_metadata_adjustments(weighted_score,
            candidate.string_ref.frequency, candidate.string_ref.age_days,
            Len(candidate.string_ref.string), Len(query), get_max_string_length(ss), now)

\* merge_and_score_candidates; order is the order of merged.into_values()
merge_and_score_candidates(candidates, query, ss, now, order) ==
    One({ [i \in 1..Len(merged) |->
              [merged[order[i]] EXCEPT
                  !.final_score = calculate_final_score(merged[order[i]], query, ss, now)]]
          : merged \in {MergeLoop(candidates, << >>)} })

FinalScoreDescending(c) ==
    [i \in 1..Len(c) |-> [j \in 1..Len(c) |-> c[i].final_score > c[j].final_score]]

\* rank_candidates_by_score
rank_candidates_by_score(candidates) == StableSort(candidates, FinalScoreDescending(candidates))

\* the comparator of the last sort_by of best_completions never puts one
\* candidate before another
PrefixBiasNone(c, query) ==
    [i \in 1..Len(c) |-> [j \in 1..Len(c) |-> FALSE]]

\* the comparator of the last sort_by of best_completions: case-insensitive
\* prefix matches first, then case-sensitive prefix matches
PrefixBias(c, query) ==
    LET ci(i) == StartsWith(ToLower(c[i].string_ref.string), ToLower(query))
        cs(i) == StartsWith(c[i].string_ref.string, query)
    IN  [i \in 1..Len(c) |-> [j \in 1..Len(c) |->
            IF ci(i) /\ ~ci(j) THEN TRUE
            ELSE IF ~ci(i) /\ ci(j) THEN FALSE
            ELSE cs(i) /\ ~cs(j)]]

\* limit_and_convert_results
limit_and_convert_results(candidates, limit) ==
    LET kept == Take(candidates, limit)
    IN  [i \in 1..Len(kept) |-> kept[i].string_ref]

\* handle_single_character_query
handle_single_character_query(ss, query, limit) ==
    Take(SortByFrequency(find_by_prefix_no_sort(ss, query)), limit)

DEFAULT_LIMIT == 15

\* the number of entries of the HashMap that best_completions builds
MergedCount(ss, query, limit) ==
    IF ss.string_refs = << >> \/ ~validate_query(query) \/ Len(query) = 1 THEN 0
    ELSE Len(MergeLoop(progressive_algorithm_execution(ss, query, UnwrapOr(limit, DEFAULT_LIMIT)), << >>))

\* StringSpaceInner::best_completions
RankedCompletions(all_candidates, query, ss, limit, now, order) ==
    One({ limit_and_convert_results(StableSort(ranked_candidates, PrefixBias(ranked_candidates, query)),
                                    limit)
          : ranked_candidates \in
              { rank_candidates_by_score(merged_candidates)
                : merged_candidates \in
                    {merge_and_score_candidates(all_candidates, query, ss, now, order)} } })

\* best_completions handing out the candidates of the three phases one
\* after the other, without add_unique_candidates and without the merge
BestCompletionsNoDedup(ss, query, opt_limit, now, order) ==
    LET limit == UnwrapOr(opt_limit, DEFAULT_LIMIT)
    IN  IF ss.string_refs = << >> \/ ~validate_query(query) THEN << >>
        ELSE limit_and_convert_results(
                 scored_prefix_search(ss, query)
                 \o fuzzy_subsequence_full_database(ss, query, limit, 0)
                 \o jaro_winkler_full_database(ss, query, limit, Frac(7, 10)),
                 limit)

best_completions(ss, query, opt_limit, now, order) ==
    LET limit == UnwrapOr(opt_limit, DEFAULT_LIMIT)
    IN  IF ss.string_refs = << >> THEN << >>
        ELSE IF ~validate_query(query) THEN << >>
        ELSE IF Len(query) = 1 THEN handle_single_character_query(ss, query, limit)
        ELSE One({ IF all_candidates = << >> THEN << >>
                   ELSE RankedCompletions(all_candidates, query, ss, limit, now, order)
                   : all_candidates \in {progressive_algorithm_execution(ss, query, limit)} })

-----------------------------------------------------------------------------
(* The backing file *)

RECURSIVE Concat(_)
Concat(seqs) == IF seqs = << >> THEN << >> ELSE Head(seqs) \o Concat(Tail(seqs))

\* Display for u16 / u32: decimal digits, no sign, no padding
RECURSIVE Decimal(_)
Decimal(n) == IF n < 10 THEN <<48 + n>> ELSE Append(Decimal(n \div 10), 48 + (n % 10))

\* a line that lacks its newline
FormatLineNoNewline(r) == r.string \o <<32>> \o Decimal(r.frequency) \o <<32>> \o Decimal(r.age_days)

\* writeln!(writer, "{} {} {}", string, frequency, age_days)
FormatLine(r) == r.string \o <<32>> \o Decimal(r.frequency) \o <<32>> \o Decimal(r.age_days) \o <<10>>

\* write_to_file: one line per index entry, in index order
FileImage(ss) ==
    LET all == get_all_strings(ss)
    IN  Concat([i \in 1..Len(all) |-> FormatLine(all[i])])

\* what the file system does with File::create(file_path): "ok", or
\* "create_error" (no permission, no such directory, read-only volume)
IoOutcomes == {"ok", "create_error"}

\* StringSpaceInner::write_to_file: File::create(file_path)? returns the
\* error and leaves the file as it was; otherwise the file is truncated and
\* every entry is written
write_to_file(ss, f, io) ==
    IF io = "create_error"
    THEN [file |-> f, result |-> "Err"]
    ELSE [file |-> [exists |-> TRUE, bytes |-> FileImage(ss)], result |-> "Ok"]

\* char::is_whitespace restricted to ASCII: \t \n \v \f \r and space
IsWhitespace(b) == b \in {9, 10, 11, 12, 13, 32}

\* reader.read_until(b'\n'): the lines of the file, each with its '\n'
\* (the last one may lack it)
RECURSIVE SplitLines(_, _, _)
SplitLines(bytes, i, cur) ==
    IF i > Len(bytes)
    THEN IF cur = << >> THEN << >> ELSE <<cur>>
    ELSE IF bytes[i] = 10
         THEN <<Append(cur, 10)>> \o SplitLines(bytes, i + 1, << >>)
         ELSE SplitLines(bytes, i + 1, Append(cur, bytes[i]))

\* str::split_whitespace: the maximal runs of non-whitespace
RECURSIVE SplitWhitespace(_, _, _)
SplitWhitespace(bytes, i, cur) ==
    IF i > Len(bytes)
    THEN IF cur = << >> THEN << >> ELSE <<cur>>
    ELSE IF IsWhitespace(bytes[i])
         THEN (IF cur = << >> THEN << >> ELSE <<cur>>) \o SplitWhitespace(bytes, i + 1, << >>)
         ELSE SplitWhitespace(bytes, i + 1, Append(cur, bytes[i]))

\* the value of a run of digits, saturating at cap
RECURSIVE DigitsValue(_, _, _, _)
DigitsValue(digits, i, acc, cap) ==
    IF i > Len(digits) THEN acc
    ELSE DigitsValue(digits, i + 1, Min(acc * 10 + (digits[i] - 48), cap), cap)

\* str::parse::<u16>() / ::<u32>() / ::<usize>(): an optional '+', then one or
\* more digits, the value at most max.  None on failure.  (max is below
\* 2^27 in every use of the model; u32 and usize are cut at that value.)
ParseUnsigned(token, max) ==
    LET digits == IF token # << >> /\ token[1] = 43 THEN Tail(token) ELSE token
    IN  IF digits = << >> \/ \E i \in 1..Len(digits) : digits[i] < 48 \/ digits[i] > 57
        THEN None
        ELSE LET v == DigitsValue(digits, 1, 0, max + 1)
             IN  IF v > max THEN None ELSE Some(v)

U32_MODEL_MAX == 99999999

\* str::trim on a token of split_whitespace (it holds no whitespace)
Trim(token) == token

\* the loop of read_from_file over the lines; stops at the first line that
\* is not UTF-8 (the `?` returns the error) or at a panic of insert_string
RECURSIVE ReadLines(_, _, _, _, _)
ReadLines(ss, lines, i, now, checks) ==
    IF i > Len(lines)
    THEN [space |-> ss, panic |-> FALSE, result |-> "Ok"]
    ELSE IF ~ValidUtf8(lines[i])
    THEN [space |-> ss, panic |-> FALSE, result |-> "Err(Invalid UTF-8)"]
    ELSE LET split == SplitWhitespace(lines[i], 1, << >>)
             parts == IF Len(split) < 3
                      THEN split \o [k \in 1..(3 - Len(split)) |-> << >>]
                      ELSE split
             string == parts[1]
             frequency == UnwrapOr(ParseUnsigned(parts[2], U16_MAX), 1)
             age_days == UnwrapOr(ParseUnsigned(parts[3], U32_MODEL_MAX), now)
             r == InnerInsert(ss, Trim(string), frequency, Some(age_days), now, checks)
         IN  IF r.panic
             THEN [space |-> r.space, panic |-> TRUE, result |-> "panic"]
             ELSE ReadLines(r.space, lines, i + 1, now, checks)

\* StringSpaceInner::read_from_file
read_from_file(ss, f, now, checks) ==
    LET cleared == clear_space(ss)
    IN  IF ~f.exists
        THEN [space |-> cleared, panic |-> FALSE, result |-> "Err(NotFound)"]
        ELSE ReadLines(cleared, SplitLines(f.bytes, 1, << >>), 1, now, checks)

-----------------------------------------------------------------------------
(* The TCP protocol *)

EOT_BYTE == 4
RS_BYTE == 30
SEND_METADATA == FALSE

\* the string literals of create_response
Text ==
    [
      prefix             |-> <<112, 114, 101, 102, 105, 120>>,
      similar            |-> <<115, 105, 109, 105, 108, 97, 114>>,
      fuzzy_subsequence  |-> <<102, 117, 122, 122, 121, 45, 115, 117, 98, 115, 101, 113, 117, 101, 110, 99, 101>>,
      best_completions   |-> <<98, 101, 115, 116, 45, 99, 111, 109, 112, 108, 101, 116, 105, 111, 110, 115>>,
      substring          |-> <<115, 117, 98, 115, 116, 114, 105, 110, 103>>,
      data_file          |-> <<100, 97, 116, 97, 45, 102, 105, 108, 101>>,
      insert             |-> <<105, 110, 115, 101, 114, 116>>,
      invalid_parameters |-> <<69, 82, 82, 79, 82, 32, 45, 32, 105, 110, 118, 97, 108, 105, 100, 32, 112, 97, 114, 97, 109, 101, 116, 101, 114, 115, 32, 40, 108, 101, 110, 103, 116, 104, 32, 61, 32>>,
      invalid_cutoff     |-> <<69, 82, 82, 79, 82, 10, 73, 110, 118, 97, 108, 105, 100, 32, 99, 117, 116, 111, 102, 102, 32, 112, 97, 114, 97, 109, 101, 116, 101, 114, 32, 39>>,
      expecting          |-> <<39, 46, 32, 32, 101, 120, 112, 101, 99, 116, 105, 110, 103, 32, 102, 108, 111, 97, 116, 105, 110, 103, 32, 112, 111, 105, 110, 116, 32, 115, 116, 114, 105, 110, 103, 32, 98, 101, 116, 119, 101, 101, 110, 32, 48, 46, 48, 32, 97, 110, 100, 32, 49, 46, 48>>,
      invalid_limit      |-> <<69, 82, 82, 79, 82, 32, 45, 32, 105, 110, 118, 97, 108, 105, 100, 32, 108, 105, 109, 105, 116, 32, 112, 97, 114, 97, 109, 101, 116, 101, 114, 32, 39>>,
      unknown_operation  |-> <<69, 82, 82, 79, 82, 32, 45, 32, 117, 110, 107, 110, 111, 119, 110, 32, 111, 112, 101, 114, 97, 116, 105, 111, 110, 32, 39>>,
      ok_inserted        |-> <<79, 75, 10, 73, 110, 115, 101, 114, 116, 101, 100, 32>>,
      of                 |-> <<32, 111, 102, 32>>,
      words              |-> <<32, 119, 111, 114, 100, 115>> ]

\* the path that the server was started with, after expand_path: "/w"
FILE_PATH == <<47, 119>>

\* str::split on a one-byte separator: the pieces between the separators
\* (one more piece than there are separators)
RECURSIVE SplitOn(_, _, _, _)
SplitOn(bytes, sep, i, cur) ==
    IF i > Len(bytes) THEN <<cur>>
    ELSE IF bytes[i] = sep
         THEN <<cur>> \o SplitOn(bytes, sep, i + 1, << >>)
         ELSE SplitOn(bytes, sep, i + 1, Append(cur, bytes[i]))

\* str::trim: without the leading and the trailing whitespace
RECURSIVE TrimStart(_)
TrimStart(bytes) ==
    IF bytes # << >> /\ IsWhitespace(Head(bytes)) THEN TrimStart(Tail(bytes)) ELSE bytes

RECURSIVE TrimEnd(_)
TrimEnd(bytes) ==
    IF bytes # << >> /\ IsWhitespace(bytes[Len(bytes)])
    THEN TrimEnd(SubSeq(bytes, 1, Len(bytes) - 1)) ELSE bytes

TrimWhitespace(bytes) == TrimEnd(TrimStart(bytes))

\* string.replace('\n', " ").replace(',', " ")
ReplaceSeparators(bytes) ==
    [i \in 1..Len(bytes) |-> IF bytes[i] \in {10, 44} THEN 32 ELSE bytes[i]]

\* Regex::new(r"\s+").replace_all(&string, " "): every run of whitespace
\* becomes one space
RECURSIVE CollapseWhitespace(_, _)
CollapseWhitespace(bytes, i) ==
    IF i > Len(bytes) THEN << >>
    ELSE IF IsWhitespace(bytes[i])
         THEN IF i > 1 /\ IsWhitespace(bytes[i - 1])
              THEN CollapseWhitespace(bytes, i + 1)
              ELSE <<32>> \o CollapseWhitespace(bytes, i + 1)
         ELSE <<bytes[i]>> \o CollapseWhitespace(bytes, i + 1)

\* the words that the insert operation takes from one parameter
InsertWords(param) ==
    SplitOn(CollapseWhitespace(ReplaceSeparators(TrimWhitespace(param)), 1), 32, 1, << >>)

RECURSIVE Pow10(_)
Pow10(k) == IF k = 0 THEN 1 ELSE 10 * Pow10(k - 1)

\* str::parse::<f64>() for the decimal forms [+-] digits [. digits] and
\* [+-] . digits, as an exact fraction; None on failure.  (The exponent,
\* "inf" and "nan" forms are not among the inputs of the model.)
IsDigits(d) == \A i \in 1..Len(d) : d[i] >= 48 /\ d[i] <= 57

\* the value of sign, integer digits, fraction digits
DecimalValue(sign, int, frac) ==
    IF ~IsDigits(int) \/ ~IsDigits(frac) \/ (int = << >> /\ frac = << >>)
    THEN None
    ELSE Some(Frac(sign * DigitsValue(int \o frac, 1, 0, U32_MODEL_MAX), Pow10(Len(frac))))

ParseF64(token) ==
    One({ IF Len(pieces) > 2 THEN None
          ELSE DecimalValue(IF signed /\ token[1] = 45 THEN -1 ELSE 1,
                            pieces[1],
                            IF Len(pieces) = 2 THEN pieces[2] ELSE << >>)
          : signed \in {token # << >> /\ token[1] \in {43, 45}},
            pieces \in {SplitOn(IF token # << >> /\ token[1] \in {43, 45} THEN Tail(token) ELSE token,
                                46, 1, << >>)} })

\* one record of a response: the string, then (never, in this build) the
\* metadata, then a newline
ResponseRecord(m) ==
    m.string
    \o (IF SEND_METADATA
        THEN <<32>> \o Decimal(m.frequency) \o <<32>> \o Decimal(m.age_days)
        ELSE << >>)
    \o <<10>>

ResponseRecords(matches) == Concat([i \in 1..Len(matches) |-> ResponseRecord(matches[i])])

\* format!("ERROR - invalid parameters (length = {})", params.len())
InvalidParameters(params) == Text.invalid_parameters \o Decimal(Len(params)) \o <<41>>

\* the loop of the insert operation over the words of all parameters
RECURSIVE InsertLoop(_, _, _, _, _, _, _)
InsertLoop(ss, words, i, counter, num_words, now, checks) ==
    IF i > Len(words)
    THEN [space |-> ss, panic |-> FALSE, counter |-> counter, num_words |-> num_words]
    ELSE One({ IF r.panic
               THEN [space |-> r.space, panic |-> TRUE, counter |-> counter, num_words |-> num_words + 1]
               ELSE InsertLoop(r.space, words, i + 1,
                               IF r.result = "Ok" THEN counter + 1 ELSE counter,
                               num_words + 1, now, checks)
               : r \in {PublicInsert(ss, words[i], 1, None, now, checks)} })

\* create_response persisting the store with every response
RespondAndPersist(ss, f, response) ==
    [space |-> ss, file |-> [exists |-> TRUE, bytes |-> FileImage(ss)], panic |-> FALSE,
     write |-> "Ok", response |-> response]

\* the result of create_response when only the response is produced
Respond(ss, f, response) ==
    [space |-> ss, file |-> f, panic |-> FALSE, write |-> "none", response |-> response]

\* the response with the records of a search, or the panic of the search
RespondMatches(ss, f, found) ==
    IF found.panic
    THEN [space |-> ss, file |-> f, panic |-> TRUE, write |-> "none", response |-> << >>]
    ELSE Respond(ss, f, ResponseRecords(found.matches))

\* the end of the insert operation: `if counter > 0 { write_to_file(..).unwrap(); }`
\* and the response; the unwrap panics on Err
FinishInsert(ss, f, counter, num_words, io) ==
    One({ IF counter > 0 /\ w.result = "Err"
          THEN [space |-> ss, file |-> w.file, panic |-> TRUE, write |-> "Err", response |-> << >>]
          ELSE [space |-> ss,
                file |-> IF counter > 0 THEN w.file ELSE f,
                panic |-> FALSE,
                write |-> IF counter > 0 THEN "Ok" ELSE "none",
                response |-> Text.ok_inserted \o Decimal(counter) \o Text.of
                             \o Decimal(num_words) \o Text.words]
          : w \in {write_to_file(ss, f, io)} })

\* StringSpaceProtocol::create_response; order is the order in which the
\* HashMap of best_completions hands out its values, io what the file system
\* does when the file is written
create_response(ss, f, operation, params, now, checks, order, io) ==
    IF operation = Text.prefix THEN
        IF Len(params) # 1 THEN Respond(ss, f, InvalidParameters(params))
        ELSE Respond(ss, f, ResponseRecords(find_by_prefix(ss, params[1])))
    ELSE IF operation = Text.similar THEN
        IF Len(params) # 2 THEN Respond(ss, f, InvalidParameters(params))
        ELSE IF ParseF64(params[2]) = None
        THEN Respond(ss, f, Text.invalid_cutoff \o params[2] \o Text.expecting)
        ELSE RespondMatches(ss, f, get_similar_words(ss, params[1], ParseF64(params[2])))
    ELSE IF operation = Text.fuzzy_subsequence THEN
        IF Len(params) # 1 THEN Respond(ss, f, InvalidParameters(params))
        ELSE RespondMatches(ss, f, fuzzy_subsequence_search(ss, params[1]))
    ELSE IF operation = Text.best_completions THEN
        IF Len(params) < 1 \/ Len(params) > 2 THEN Respond(ss, f, InvalidParameters(params))
        ELSE IF Len(params) = 2 /\ ParseUnsigned(params[2], U32_MODEL_MAX) = None
        THEN Respond(ss, f, Text.invalid_limit \o params[2] \o <<39>>)
        ELSE Respond(ss, f, ResponseRecords(best_completions(ss, params[1],
                        IF Len(params) = 2 THEN ParseUnsigned(params[2], U32_MODEL_MAX) ELSE None,
                        now, order)))
    ELSE IF operation = Text.substring THEN
        IF Len(params) # 1 THEN Respond(ss, f, InvalidParameters(params))
        ELSE Respond(ss, f, ResponseRecords(find_with_substring(ss, params[1])))
    ELSE IF operation = Text.data_file THEN
        Respond(ss, f, FILE_PATH)
    ELSE IF operation = Text.insert THEN
        IF Len(params) < 1 THEN Respond(ss, f, InvalidParameters(params))
        ELSE One({ IF r.panic
                   THEN [space |-> r.space, file |-> f, panic |-> TRUE, write |-> "none",
                         response |-> << >>]
                   ELSE FinishInsert(r.space, f, r.counter, r.num_words, io)
                   : r \in { InsertLoop(ss,
                                        Concat([i \in 1..Len(params) |-> InsertWords(params[i])]),
                                        1, 0, 0, now, checks) } })
    ELSE Respond(ss, f, Text.unknown_operation \o operation \o <<39>>)

\* the number of HashMap entries that the request makes best_completions build
RequestMergedCount(ss, operation, params) ==
    IF operation = Text.best_completions /\ Len(params) \in {1, 2}
       /\ (Len(params) = 2 => ParseUnsigned(params[2], U32_MODEL_MAX) # None)
    THEN MergedCount(ss, params[1],
                     IF Len(params) = 2 THEN ParseUnsigned(params[2], U32_MODEL_MAX) ELSE None)
    ELSE 0

\* buffer.iter().position(|&b| b == EOT_BYTE): None, or the 0-based position
PositionOfEot(buffer) ==
    LET at == {i \in 1..Len(buffer) : buffer[i] = EOT_BYTE}
    IN  IF at = {} THEN None ELSE Some(SetMin(at) - 1)

-----------------------------------------------------------------------------
(* Calls of the public API of StringSpace *)

NoRet == [op |-> "none"]

Init ==
    /\ space = NewInner
    /\ today = 20000
    /\ overflow_checks \in BOOLEAN
    /\ panicked = FALSE
    /\ file = [exists |-> FALSE, bytes |-> << >>]
    /\ ret = NoRet
    /\ nops = 0
    /\ conn = [sessions |-> {}, requests |-> 0, responses |-> 0,
               connected |-> 0, accepted |-> 0]

CanCall == ~panicked /\ nops < MaxOps

\* ss.insert_string(string, frequency)
InsertString(string, frequency) ==
    /\ CanCall
    /\ LET r == PublicInsert(space, string, frequency, None, today, overflow_checks)
       IN  /\ space' = r.space
           /\ panicked' = r.panic
           /\ ret' = [op |-> "insert_string", string |-> string,
                      frequency |-> frequency, result |-> r.result]
    /\ nops' = nops + 1
    /\ UNCHANGED <<conn, today, overflow_checks, file>>

\* ss.insert_string_with_age(string, frequency, age_days)
InsertStringWithAge(string, frequency, age_days) ==
    /\ CanCall
    /\ LET r == PublicInsert(space, string, frequency, Some(age_days), today, overflow_checks)
       IN  /\ space' = r.space
           /\ panicked' = r.panic
           /\ ret' = [op |-> "insert_string_with_age", string |-> string,
                      frequency |-> frequency, result |-> r.result]
    /\ nops' = nops + 1
    /\ UNCHANGED <<conn, today, overflow_checks, file>>

\* ss.clear_space()
ClearSpace ==
    /\ CanCall
    /\ space' = clear_space(space)
    /\ ret' = [op |-> "clear_space"]
    /\ nops' = nops + 1
    /\ UNCHANGED <<conn, today, overflow_checks, panicked, file>>

\* ss.find_by_prefix(prefix)
FindByPrefix(prefix) ==
    /\ ~panicked
    /\ ret' = [op |-> "find_by_prefix", query |-> prefix,
               result |-> find_by_prefix(space, prefix)]
    /\ UNCHANGED <<conn, space, today, overflow_checks, panicked, file, nops>>

\* ss.write_to_file(path)
WriteToFile ==
    /\ CanCall
    /\ file' = write_to_file(space, file, "ok").file
    /\ ret' = [op |-> "write_to_file", result |-> "Ok"]
    /\ nops' = nops + 1
    /\ UNCHANGED <<conn, space, today, overflow_checks, panicked>>

\* ss.read_from_file(path)
ReadFromFile ==
    /\ CanCall
    /\ LET r == read_from_file(space, file, today, overflow_checks)
       IN  /\ space' = r.space
           /\ panicked' = r.panic
           /\ ret' = [op |-> "read_from_file", result |-> r.result]
    /\ nops' = nops + 1
    /\ UNCHANGED <<conn, today, overflow_checks, file>>

\* StringSpaceProtocol::new(file_path): a server starts on the backing file
\* with a new StringSpace; the Err of read_from_file is printed
New ==
    /\ CanCall
    /\ LET r == read_from_file(NewInner, file, today, overflow_checks)
       IN  /\ space' = r.space
           /\ panicked' = r.panic
           /\ ret' = [op |-> "new", result |-> r.result]
    /\ nops' = nops + 1
    /\ UNCHANGED <<conn, today, overflow_checks, file>>

\* ss.write_to_file(path); ss.clear_space(); ss.read_from_file(path)
WriteClearRead ==
    /\ CanCall
    /\ space.string_refs # << >>
    /\ LET written == [exists |-> TRUE, bytes |-> FileImage(space)]
           r == read_from_file(clear_space(space), written, today, overflow_checks)
       IN  /\ file' = written
           /\ space' = r.space
           /\ panicked' = r.panic
           /\ ret' = [op |-> "write_clear_read", result |-> r.result,
                      before |-> get_all_strings(space),
                      after |-> get_all_strings(r.space)]
    /\ nops' = nops + 1
    /\ UNCHANGED <<conn, today, overflow_checks>>

\* the file as another program (an editor, an earlier version) left it
ExternalWrite(content) ==
    /\ CanCall
    /\ file' = [exists |-> TRUE, bytes |-> content]
    /\ ret' = [op |-> "external_write"]
    /\ nops' = nops + 1
    /\ UNCHANGED <<conn, space, today, overflow_checks, panicked>>

\* the wall clock passes midnight
Tick ==
    /\ ~panicked
    /\ today < 20000 + MaxTicks
    /\ today' = today + 1
    /\ UNCHANGED <<conn, space, overflow_checks, panicked, file, ret, nops>>

\* ss.best_completions(query, limit)
BestCompletions(query, limit) ==
    /\ CanCall
    /\ \E order \in HashMapOrders(MergedCount(space, query, limit)) :
          ret' = [op |-> "best_completions", query |-> query, limit |-> limit, now |-> today,
                  result |-> best_completions(space, query, limit, today, order)]
    /\ nops' = nops + 1
    /\ UNCHANGED <<conn, space, today, overflow_checks, panicked, file>>

\* ss.find_with_substring(substring)
FindWithSubstring(substring) ==
    /\ ~panicked
    /\ ret' = [op |-> "find_with_substring", query |-> substring, panic |-> FALSE,
               result |-> find_with_substring(space, substring)]
    /\ UNCHANGED <<conn, space, today, overflow_checks, panicked, file, nops>>

\* ss.fuzzy_subsequence_search(query)
FuzzySubsequenceSearch(query) ==
    /\ ~panicked
    /\ \E r \in {fuzzy_subsequence_search(space, query)} :
          /\ panicked' = r.panic
          /\ ret' = [op |-> "fuzzy_subsequence_search", query |-> query, panic |-> r.panic,
                     result |-> r.matches]
    /\ UNCHANGED <<conn, space, today, overflow_checks, file, nops>>

\* ss.get_similar_words(word, cutoff)
GetSimilarWords(word, cutoff) ==
    /\ ~panicked
    /\ \E r \in {get_similar_words(space, word, cutoff)} :
          /\ panicked' = r.panic
          /\ ret' = [op |-> "get_similar_words", query |-> word, cutoff |-> cutoff,
                     panic |-> r.panic, result |-> r.matches]
    /\ UNCHANGED <<conn, space, today, overflow_checks, file, nops>>

\* score_match_span_chars(&query_chars, &candidate_chars), the arguments
\* being the chars of two strings
ScoreMatchSpanChars(query, candidate) ==
    /\ ~panicked
    /\ ret' = [op |-> "score_match_span_chars", query |-> query, candidate |-> candidate,
               result |-> score_match_span_chars(query, candidate)]
    /\ UNCHANGED <<conn, space, today, overflow_checks, panicked, file, nops>>

\* a client connects: the kernel queues the connection on the listener.
\* connected counts the clients that have connected, accepted those that
\* listener.incoming() has yielded; connections are numbered from 1 in the
\* order in which they are accepted
ClientConnect ==
    /\ ~panicked
    /\ conn.connected < MaxClients
    /\ conn' = [conn EXCEPT !.connected = @ + 1]
    /\ UNCHANGED <<space, today, overflow_checks, panicked, file, ret, nops>>

\* a server that starts handle_client on the next connection while another
\* handle_client is running (a handler thread per connection)
AcceptWhileServing ==
    /\ ~panicked
    /\ conn.accepted < conn.connected
    /\ conn' = [conn EXCEPT !.sessions = @ \cup {conn.accepted + 1},
                            !.accepted = @ + 1, !.requests = 0, !.responses = 0]
    /\ UNCHANGED <<space, today, overflow_checks, panicked, file, ret, nops>>

\* run_server: listener.incoming() yields the next connection and
\* handle_client starts on it.  handle_client is called in the body of the
\* `for stream in listener.incoming()` loop, so the loop asks for the next
\* connection only after handle_client has returned.  sessions is the set of
\* connections on which a handle_client is running
Accept ==
    /\ ~panicked
    /\ conn.sessions = {}
    /\ conn.accepted < conn.connected
    /\ conn' = [conn EXCEPT !.sessions = @ \cup {conn.accepted + 1},
                            !.accepted = @ + 1, !.requests = 0, !.responses = 0]
    /\ UNCHANGED <<space, today, overflow_checks, panicked, file, ret, nops>>

\* one turn of the loop of handle_client; input is what read_until(EOT_BYTE)
\* returns: the bytes up to and including the next EOT, or, at the end of
\* the stream, the bytes that were left
HandleClientRead(input) ==
    /\ CanCall
    /\ nops' = nops + 1
    /\ UNCHANGED <<today, overflow_checks>>
    /\ \E connection \in conn.sessions :
       \E index \in {PositionOfEot(input)} :
       \E buffer \in {IF index = None THEN input ELSE SubSeq(input, 1, index[1])} :
          IF index = None \/ buffer = << >>
          THEN \* break
               /\ conn' = [conn EXCEPT !.sessions = @ \ {connection}]
               /\ ret' = [op |-> "handle_client", connection |-> connection, buffer |-> buffer, framed |-> FALSE,
                          written |-> << >>, write |-> "none"]
               /\ UNCHANGED <<space, file, panicked>>
          ELSE IF ~ValidUtf8(buffer)
          THEN \* continue
               /\ conn' = [conn EXCEPT !.requests = @ + 1]
               /\ ret' = [op |-> "handle_client", connection |-> connection, buffer |-> buffer, framed |-> TRUE,
                          written |-> << >>, write |-> "none"]
               /\ UNCHANGED <<space, file, panicked>>
          ELSE \E request_elements \in {SplitOn(buffer, RS_BYTE, 1, << >>)} :
               \E order \in HashMapOrders(RequestMergedCount(space, Head(request_elements),
                                                             Tail(request_elements))) :
               \E io \in IoOutcomes :
               \E r \in {create_response(space, file, Head(request_elements), Tail(request_elements),
                                         today, overflow_checks, order, io)} :
               \E written \in {IF r.panic THEN << >> ELSE Append(r.response, EOT_BYTE)} :
                  /\ space' = r.space
                  /\ file' = r.file
                  /\ panicked' = r.panic
                  /\ conn' = [conn EXCEPT
                                !.requests = @ + 1,
                                !.responses = @ + Cardinality({i \in 1..Len(written) :
                                                                 written[i] = EOT_BYTE})]
                  /\ ret' = [op |-> "handle_client", connection |-> connection, buffer |-> buffer, framed |-> TRUE,
                             written |-> written, write |-> r.write]

-----------------------------------------------------------------------------
(* Inputs *)

W == [ ab    |-> <<97, 98>>,
       abb   |-> <<97, 98, 98>>,
       abc   |-> <<97, 98, 99>>,
       abca  |-> <<97, 98, 99, 97>>,
       abcd  |-> <<97, 98, 99, 100>>,
       abd   |-> <<97, 98, 100>>,
       len50 |-> Repeat(98, 50),
       len51 |-> Repeat(98, 51) ]

StoreWords == {W.ab, W.abb, W.abc, W.abca, W.abcd, W.len50, W.len51}
StorePrefixes == {<< >>, <<97>>, <<97, 98>>, W.abc, W.abcd, <<98>>}

NextStore ==
    \/ \E s \in StoreWords : InsertString(s, 1)
    \/ \E s \in {W.abc, W.abcd} : InsertStringWithAge(s, 2, 19999)
    \/ ClearSpace
    \/ \E p \in StorePrefixes : FindByPrefix(p)

SpecStore == Init /\ [][NextStore]_vars

FreqWords == {W.abc, W.abd}

NextFreq ==
    \/ \E s \in FreqWords, k \in {0, 1, 65535} : InsertString(s, k)
    \/ \E s \in FreqWords : InsertStringWithAge(s, 65534, 19999)
    \/ \E p \in {<<97, 98>>} : FindByPrefix(p)
    \/ Tick

SpecFreq == Init /\ [][NextFreq]_vars

FileWords == {W.abc, W.abd, <<97, 32, 98>>}

\* "abc 7 19000\n", "ab 1 1\n", "\n", "abd\n", "abc 1 1\n\xff\n"
FileContents ==
    { <<97, 98, 99, 32, 55, 32, 49, 57, 48, 48, 48, 10>>,
      <<97, 98, 32, 49, 32, 49, 10>>,
      <<10>>,
      <<97, 98, 100, 10>>,
      <<97, 98, 99, 32, 49, 32, 49, 10, 255, 10>> }

NextFile ==
    \/ \E s \in FileWords, k \in {1, 3} : InsertString(s, k)
    \/ ClearSpace
    \/ WriteToFile
    \/ ReadFromFile
    \/ New
    \/ WriteClearRead
    \/ \E content \in FileContents : ExternalWrite(content)
    \/ Tick

SpecFile == Init /\ [][NextFile]_vars

RW == [ abc  |-> <<97, 98, 99>>,
        Abc  |-> <<65, 98, 99>>,
        xab  |-> <<120, 97, 98>>,
        yab  |-> <<121, 97, 98>> ]

RankWords == {RW.abc, RW.Abc, RW.xab, RW.yab}
\* "ab", "a", ""
RankQueries == {<<97, 98>>, <<97>>, << >>}
RankLimits == {None, Some(1), Some(3)}

NextRank ==
    \/ \E s \in RankWords : InsertString(s, 1)
    \/ \E s \in {RW.abc, RW.xab} : InsertString(s, 3)
    \/ \E q \in RankQueries, limit \in RankLimits : BestCompletions(q, limit)

SpecRank == Init /\ [][NextRank]_vars

\* words and queries of the searches; sect is the char U+00A7 (two bytes)
SW == [ abc   |-> <<97, 98, 99>>,
        abd   |-> <<97, 98, 100>>,
        axb   |-> <<97, 120, 98>>,
        axxbx |-> <<97, 120, 120, 98, 120>>,
        sab   |-> <<194, 167, 97, 98>>,
        sect  |-> <<194, 167>> ]

SearchWords == {SW.abc, SW.abd, SW.axb, SW.axxbx, SW.sab}

\* "ab", "a", "", U+00A7
SearchQueries == {<<97, 98>>, <<97>>, << >>, SW.sect}

\* "abd", "a", U+00A7 "a"
SimilarWords == {SW.abd, <<97>>, SW.sect \o <<97>>}
SimilarCutoffs == {None, Some(Frac(6, 10))}

\* queries that validate_query is to reject: "", "!", BEL "a", U+0085 "a",
\* U+FFFD "a", 51 bytes, U+00A7; and "ab"
CompletionQueries ==
    { << >>, <<33>>, <<7, 97>>, <<194, 133, 97>>, <<239, 191, 189, 97>>,
      Repeat(97, MAX_CHARS + 1), SW.sect, <<97, 98>> }

NextSearch ==
    \/ \E s \in SearchWords : InsertString(s, 1)
    \/ \E s \in {SW.abc} : InsertString(s, 3)
    \/ \E p \in SearchQueries : FindByPrefix(p)
    \/ \E q \in SearchQueries : FindWithSubstring(q)
    \/ \E q \in SearchQueries : FuzzySubsequenceSearch(q)
    \/ \E w \in SimilarWords, c \in SimilarCutoffs : GetSimilarWords(w, c)
    \/ \E q \in CompletionQueries : BestCompletions(q, None)

SpecSearch == Init /\ [][NextSearch]_vars

\* words and queries with chars of more than one byte: S is U+03A3 (capital
\* sigma), s2 is U+03C2 (final sigma), e is U+00E9 (e with acute)
\*   aSb   "a" S "b"      aS    "a" S       as2S  "a" s2 S
\*   xeyy  "x" e "yy"     ea    e "a"       e     e
CW == [ aSb  |-> <<97, 206, 163, 98>>,
        aS   |-> <<97, 206, 163>>,
        as2S |-> <<97, 207, 130, 206, 163>>,
        xeyy |-> <<120, 195, 169, 121, 121>>,
        ea   |-> <<195, 169, 97>>,
        e    |-> <<195, 169>> ]

CompletionWords == {CW.aSb, CW.aS, CW.as2S, CW.xeyy, CW.ea}
UnicodeQueries == {CW.aS, CW.e, <<97>>}
CompletionLimits == {None, Some(1)}
SpanQueries == {<< >>, <<97>>, CW.e, CW.aS, <<120, 121>>, <<97, 98, 99>>}

NextCompletion ==
    \/ \E s \in CompletionWords : InsertString(s, 1)
    \/ \E s \in {CW.aSb} : InsertString(s, 2)
    \/ \E q \in UnicodeQueries, limit \in CompletionLimits : BestCompletions(q, limit)
    \/ \E q \in SpanQueries, c \in CompletionWords : ScoreMatchSpanChars(q, c)

SpecCompletion == Init /\ [][NextCompletion]_vars

\* request frames, without their EOT:
\*   insert_abc    'insert<RS>abc'
\*   insert_two    'insert<RS> ERROR,\nxab '
\*   insert_short  'insert<RS>ab'
\*   insert_none   'insert'
\*   prefix_ab     'prefix<RS>ab'
\*   prefix_ERR    'prefix<RS>ERR'
\*   prefix_two    'prefix<RS>a<RS>b'
\*   similar_ok    'similar<RS>abd<RS>0.6'
\*   similar_bad   'similar<RS>abd<RS>x'
\*   fuzzy         'fuzzy-subsequence<RS>ac'
\*   best_ok       'best-completions<RS>ab<RS>1'
\*   best_bad      'best-completions<RS>ab<RS>-1'
\*   substring     'substring<RS>b'
\*   data_file     'data-file'
\*   unknown       'bogus'
\*   not_utf8      '\xff'
\*   empty         ''
Frame ==
    [
      insert_abc    |-> <<105, 110, 115, 101, 114, 116, 30, 97, 98, 99>>,
      insert_two    |-> <<105, 110, 115, 101, 114, 116, 30, 32, 69, 82, 82, 79, 82, 44, 10, 120, 97, 98, 32>>,
      insert_short  |-> <<105, 110, 115, 101, 114, 116, 30, 97, 98>>,
      insert_none   |-> <<105, 110, 115, 101, 114, 116>>,
      prefix_ab     |-> <<112, 114, 101, 102, 105, 120, 30, 97, 98>>,
      prefix_ERR    |-> <<112, 114, 101, 102, 105, 120, 30, 69, 82, 82>>,
      prefix_two    |-> <<112, 114, 101, 102, 105, 120, 30, 97, 30, 98>>,
      similar_ok    |-> <<115, 105, 109, 105, 108, 97, 114, 30, 97, 98, 100, 30, 48, 46, 54>>,
      similar_bad   |-> <<115, 105, 109, 105, 108, 97, 114, 30, 97, 98, 100, 30, 120>>,
      fuzzy         |-> <<102, 117, 122, 122, 121, 45, 115, 117, 98, 115, 101, 113, 117, 101, 110, 99, 101, 30, 97, 99>>,
      best_ok       |-> <<98, 101, 115, 116, 45, 99, 111, 109, 112, 108, 101, 116, 105, 111, 110, 115, 30, 97, 98, 30, 49>>,
      best_bad      |-> <<98, 101, 115, 116, 45, 99, 111, 109, 112, 108, 101, 116, 105, 111, 110, 115, 30, 97, 98, 30, 45, 49>>,
      substring     |-> <<115, 117, 98, 115, 116, 114, 105, 110, 103, 30, 98>>,
      data_file     |-> <<100, 97, 116, 97, 45, 102, 105, 108, 101>>,
      unknown       |-> <<98, 111, 103, 117, 115>>,
      not_utf8      |-> <<255>>,
      empty         |-> <<>> ]

ProtoFrames ==
    {Frame.insert_abc, Frame.insert_two, Frame.insert_short, Frame.insert_none,
     Frame.prefix_ab, Frame.prefix_ERR, Frame.prefix_two, Frame.similar_ok,
     Frame.similar_bad, Frame.fuzzy, Frame.best_ok, Frame.best_bad, Frame.substring,
     Frame.data_file, Frame.unknown, Frame.not_utf8, Frame.empty}

\* what a read can return: a frame with its EOT, or the end of the stream
\* (with or without bytes left over)
ProtoReads == {Append(f, EOT_BYTE) : f \in ProtoFrames} \cup {<< >>, Frame.prefix_ab}

NextProto ==
    \/ ClientConnect
    \/ Accept
    \/ \E input \in ProtoReads : HandleClientRead(input)

SpecProto == Init /\ [][NextProto]_vars

-----------------------------------------------------------------------------
(* Properties of the store *)

IndexOf(ss, string) == {i \in 1..Len(ss.string_refs) : StringBytes(ss, ss.string_refs[i]) = string}

\* C1: after any sequence of insert_string / insert_string_with_age calls the
\* index is strictly increasing in lexicographic byte order of the bytes each
\* entry points at (so no two entries point at equal byte sequences).
C1_IndexStrictlySorted ==
    \A i \in 1..(Len(space.string_refs) - 1) :
        SliceCmp(StringBytes(space, space.string_refs[i]),
                 StringBytes(space, space.string_refs[i + 1])) = "Less"

\* three entries, entered out of byte order (the pointers do not follow the
\* index), after a buffer growth and after a merge of an already-present key
C1_Witness ==
    /\ Len(space.string_refs) >= 3
    /\ space.capacity > INITIAL_HEAP_SIZE
    /\ \E i \in 1..(Len(space.string_refs) - 1) :
           space.string_refs[i].pointer > space.string_refs[i + 1].pointer
    /\ \E i \in 1..Len(space.string_refs) : space.string_refs[i].frequency > 2

\* C2: for a non-empty prefix p, find_by_prefix(p) returns exactly the records
\* whose bytes start with p: each once, none missing, none extra.
C2_PrefixExact ==
    (ret.op = "find_by_prefix" /\ Len(ret.query) >= 1) =>
        LET all == get_all_strings(space)
            hits == {i \in 1..Len(all) : StartsWith(all[i].string, ret.query)}
        IN  /\ Len(ret.result) = Cardinality(hits)
            /\ \A i \in hits : \E j \in 1..Len(ret.result) : ret.result[j] = all[i]
            /\ \A j \in 1..Len(ret.result) : \E i \in hits : ret.result[j] = all[i]

\* the query is "abcd"; the store holds "abc" (a proper prefix of the query),
\* a string below it, and two strings of which only one matches
C2_Witness ==
    /\ ret.op = "find_by_prefix"
    /\ ret.query = W.abcd
    /\ Len(ret.result) = 1
    /\ IndexOf(space, W.abc) # {}
    /\ IndexOf(space, W.abb) # {}
    /\ IndexOf(space, W.abca) # {}

\* C3: insert(s, k1) followed by insert(s, k2) leaves exactly one entry for s,
\* with frequency min(k1 + k2, 0xFFFF) and age_days = today(); it never wraps
\* and never fails.
C3_SaturatingMerge ==
    [][ ( /\ ret.op = "insert_string" /\ ret.result = "Ok"
          /\ \E i \in IndexOf(space, ret.string) :
                 space.string_refs[i].frequency = ret.frequency
          /\ nops' = nops + 1
          /\ ret'.op = "insert_string" /\ ret'.string = ret.string )
        => ( /\ ~panicked'
             /\ Cardinality(IndexOf(space', ret.string)) = 1
             /\ \A i \in IndexOf(space', ret.string) :
                    /\ space'.string_refs[i].frequency
                          = Min(ret.frequency + ret'.frequency, 65535)
                    /\ space'.string_refs[i].age_days = today' ) ]_vars

Range(seq) == {seq[i] : i \in 1..Len(seq)}

\* C4: for every store reachable through the public insert operations,
\* write_to_file; clear_space; read_from_file yields a store whose
\* get_all_strings() holds the same set of (bytes, frequency, age_days).
C4_RoundTrip ==
    ret.op = "write_clear_read" =>
        /\ ret.result = "Ok"
        /\ Range(ret.after) = Range(ret.before)

\* C10: in every reachable store state, after any sequence of insert, clear
\* and load operations on any file content, every index entry has a length
\* between 3 and 50 bytes.
C10_EntryLengths ==
    \A i \in 1..Len(space.string_refs) :
        /\ space.string_refs[i].length >= 3
        /\ space.string_refs[i].length <= 50

-----------------------------------------------------------------------------
(* Properties of the ranker *)

IsPrefixIgnoringCase(record, query) == StartsWith(ToLower(record.string), ToLower(query))
IsPrefixExactCase(record, query) == StartsWith(record.string, query)

C6_Deterministic ==
    [][(/\ ret.op = "best_completions"
        /\ ret'.op = "best_completions"
        /\ ret'.query = ret.query
        /\ ret'.limit = ret.limit
        /\ ret'.now = ret.now
        /\ space' = space)
       => ret'.result = ret.result]_vars

-----------------------------------------------------------------------------
(* Properties of the protocol *)

\* C7: on one connection, every non-empty EOT-terminated request frame that
\* the server has read, whatever its bytes, has been answered by exactly one
\* EOT-terminated response frame before the next frame is read: between two
\* reads the server has written as many EOTs as it has read such frames.
C7_OneResponsePerFrame ==
    (conn.sessions # {} /\ ~panicked) => conn.responses = conn.requests

\* the request of the frame fails: wrong operand count for the operation,
\* unparseable cutoff or limit, or unknown operation
RequestFails(buffer) ==
    LET elements == SplitOn(buffer, RS_BYTE, 1, << >>)
        operation == Head(elements)
        params == Tail(elements)
    IN  IF operation \in {Text.prefix, Text.fuzzy_subsequence, Text.substring}
        THEN Len(params) # 1
        ELSE IF operation = Text.similar
        THEN Len(params) # 2 \/ ParseF64(params[2]) = None
        ELSE IF operation = Text.best_completions
        THEN \/ Len(params) \notin {1, 2}
             \/ (Len(params) = 2 /\ ParseUnsigned(params[2], U32_MODEL_MAX) = None)
        ELSE IF operation = Text.data_file THEN FALSE
        ELSE IF operation = Text.insert THEN Len(params) < 1
        ELSE TRUE

\* "ERROR"
ERROR_LITERAL == <<69, 82, 82, 79, 82>>

\* C8: the response to a request begins with the literal ERROR exactly when
\* the request failed (wrong operand count, unparseable cutoff or limit,
\* unknown operation); a request that succeeds never gets a response whose
\* first line begins with ERROR.
C8_ErrorIffFailed ==
    (ret.op = "handle_client" /\ ret.written # << >>) =>
        (StartsWith(ret.written, ERROR_LITERAL) <=> RequestFails(ret.buffer))

-----------------------------------------------------------------------------
(* The dispatcher and the backing file *)

\* the operation that a request frame names
RequestOperation(buffer) == Head(SplitOn(buffer, RS_BYTE, 1, << >>))

ReadOnlyOperations ==
    {Text.prefix, Text.substring, Text.fuzzy_subsequence, Text.similar,
     Text.best_completions, Text.data_file}

\* C11: the backing file changes only in a step that handles an insert
\* request, and then it holds the store as it is after every word of the
\* request was applied; a request for prefix, substring, fuzzy-subsequence,
\* similar, best-completions or data-file, and any request answered with an
\* error, leaves the backing file and the store as they were.
C11_WritesOnlyAfterInsert ==
    [][ /\ (file' # file =>
              /\ ret'.op = "handle_client"
              /\ nops' = nops + 1
              /\ RequestOperation(ret'.buffer) = Text.insert
              /\ file' = [exists |-> TRUE, bytes |-> FileImage(space')])
        /\ ((/\ ret'.op = "handle_client"
              /\ ret'.framed
              /\ \/ RequestOperation(ret'.buffer) \in ReadOnlyOperations
                 \/ StartsWith(ret'.written, ERROR_LITERAL))
             => (file' = file /\ space' = space)) ]_vars

\* an insert request of two words was handled: both are in the store and the
\* file holds the store
C11_Witness ==
    /\ ret.op = "handle_client"
    /\ ret.buffer = Frame.insert_two
    /\ ret.write = "Ok"
    /\ Len(space.string_refs) >= 2
    /\ file = [exists |-> TRUE, bytes |-> FileImage(space)]

\* the lines of the backing file, and the string that a line holds (the
\* bytes before its first space)
FileLines(f) == SplitLines(f.bytes, 1, << >>)
LineString(line) ==
    LET spaces == {i \in 1..Len(line) : line[i] = 32}
    IN  IF spaces = {} THEN line ELSE SubSeq(line, 1, SetMin(spaces) - 1)

\* C12: from an empty store and no backing file, once insert requests have
\* put a word into the store, the backing file has as many lines as the
\* store has entries and every stored string is on exactly one line.
C12_OneLinePerString ==
    (~panicked /\ space.string_refs # << >>) =>
        /\ file.exists
        /\ Len(FileLines(file)) = Len(space.string_refs)
        /\ \A i \in 1..Len(space.string_refs) :
              Cardinality({k \in 1..Len(FileLines(file)) :
                              LineString(FileLines(file)[k])
                                  = StringBytes(space, space.string_refs[i])}) = 1

\* two strings are stored, one of them inserted more than once, and the
\* file has two lines
C12_Witness ==
    /\ ~panicked
    /\ Len(space.string_refs) = 2
    /\ \E i \in 1..2 : space.string_refs[i].frequency >= 2
    /\ file.exists
    /\ Len(FileLines(file)) = 2

\* "OK\nInserted "
OK_INSERTED == Text.ok_inserted

\* C13: when the write of the backing file after an insert request fails
\* with an I/O error, the inserts stay in memory, the client gets the
\* response "OK\nInserted K of N words" and the server goes on serving.
C13_WriteFailureReportsSuccess ==
    (ret.op = "handle_client" /\ ret.write = "Err") =>
        /\ ~panicked
        /\ conn.sessions # {}
        /\ StartsWith(ret.written, OK_INSERTED)
        /\ space.string_refs # << >>

\* C14: when StringSpaceProtocol::new fails to load the backing file (the
\* file is missing, or some line of it, the first or a later one, is not
\* UTF-8), the server starts all the same and its store is empty.
C14_FailedLoadLeavesStoreEmpty ==
    (ret.op = "new" /\ ret.result \notin {"Ok", "panic"}) =>
        (~panicked /\ space.string_refs = << >>)

-----------------------------------------------------------------------------
(* The searches *)

SearchOps ==
    {"find_by_prefix", "find_with_substring", "fuzzy_subsequence_search",
     "get_similar_words", "best_completions"}

\* C15: no search panics: find_by_prefix, find_with_substring,
\* fuzzy_subsequence_search, get_similar_words and best_completions return a
\* list for every store and every UTF-8 query, single-byte or multi-byte.
C15_SearchNeverPanics ==
    ret.op \in SearchOps => ~panicked

\* the query holds a control character / holds U+FFFD / is one character
\* that is not alphanumeric
HasControl(query) == \E i \in 1..Len(Chars(query)) : IsControl(Chars(query)[i])
HasReplacement(query) == \E i \in 1..Len(Chars(query)) : Chars(query)[i] = REPLACEMENT_CHARACTER
OneCharNotAlphanumeric(query) ==
    Len(Chars(query)) = 1 /\ ~IsAlphanumeric(Chars(query)[1])

\* C16: best_completions returns the empty list when the query is empty,
\* holds a control character, is one character that is not alphanumeric, is
\* longer than 50 bytes or holds U+FFFD, and for every query when the store
\* is empty.
C16_InvalidQueryGivesEmpty ==
    (/\ ret.op = "best_completions"
     /\ \/ ret.query = << >>
        \/ HasControl(ret.query)
        \/ OneCharNotAlphanumeric(ret.query)
        \/ Len(ret.query) > MAX_CHARS
        \/ HasReplacement(ret.query)
        \/ space.string_refs = << >>)
    => ret.result = << >>

\* the match-span score of the scoring primitives: 0 with fewer than two
\* matched chars, else the average gap between consecutive matched char
\* indices divided by the length of the candidate in chars
MatchSpanScore(query, candidate) ==
    IF Len(Chars(query)) < 2 THEN Frac(0, 1) ELSE score_match_span_chars(query, candidate)

\* C17: for a non-empty query q, fuzzy_subsequence_search(q) returns only
\* records of which q is a character subsequence, at most 10 of them, in
\* ascending order of the match-span score (average gap between consecutive
\* matched char indices, divided by the candidate's length in chars).
C17_FuzzySearchSortedBySpanScore ==
    (ret.op = "fuzzy_subsequence_search" /\ ~ret.panic /\ ret.query # << >>) =>
        /\ Len(ret.result) <= 10
        /\ \A i \in 1..Len(ret.result) : is_subsequence(ret.query, ret.result[i].string) # None
        /\ \A i, j \in 1..Len(ret.result) :
              i < j => ~FracLess(MatchSpanScore(ret.query, ret.result[j].string),
                                 MatchSpanScore(ret.query, ret.result[i].string))

\* (similarity, frequency, age_days) of a is not below that of b
RankedNotBelow(word, a, b) ==
    LET sa == jaro_winkler(word, a.string)
        sb == jaro_winkler(word, b.string)
    IN  \/ FracLess(sb, sa)
        \/ /\ FracEq(sa, sb)
           /\ \/ a.frequency > b.frequency
              \/ (a.frequency = b.frequency /\ a.age_days >= b.age_days)

\* C18: for a word w of at least 2 bytes and a cutoff c, get_similar_words
\* returns only records whose Jaro-Winkler similarity to w is greater than c,
\* ordered by similarity descending, then frequency descending, then
\* age_days descending.
C18_SimilarWordsRanking ==
    (ret.op = "get_similar_words" /\ ~ret.panic /\ Len(ret.query) >= 2) =>
        /\ \A i \in 1..Len(ret.result) :
              FracLess(UnwrapOr(ret.cutoff, Frac(7, 10)),
                       jaro_winkler(ret.query, ret.result[i].string))
        /\ \A i, j \in 1..Len(ret.result) :
              i < j => RankedNotBelow(ret.query, ret.result[i], ret.result[j])

\* C19: the list of find_by_prefix is in descending order of frequency, and
\* records of equal frequency are in lexicographic byte order of their
\* strings, in whatever order they were inserted.
C19_PrefixResultOrder ==
    ret.op = "find_by_prefix" =>
        \A i, j \in 1..Len(ret.result) :
            i < j => \/ ret.result[i].frequency > ret.result[j].frequency
                     \/ /\ ret.result[i].frequency = ret.result[j].frequency
                        /\ SliceCmp(ret.result[i].string, ret.result[j].string) = "Less"

\* the 0-based pointer of the stored string: strings are appended to the
\* buffer, so a greater pointer means a later insert (until the buffer grows)
PointerOf(ss, string) ==
    ss.string_refs[CHOOSE i \in 1..Len(ss.string_refs) :
                      StringBytes(ss, ss.string_refs[i]) = string].pointer

\* a search found two records of equal frequency of which the
\* lexicographically first was inserted last
C19_Witness ==
    /\ ret.op = "find_by_prefix"
    /\ space.capacity = INITIAL_HEAP_SIZE
    /\ \E i \in 1..Len(ret.result) - 1 :
          /\ ret.result[i].frequency = ret.result[i + 1].frequency
          /\ PointerOf(space, ret.result[i].string) > PointerOf(space, ret.result[i + 1].string)

\* the strings of a list of candidates
CandidateStrings(candidates) ==
    {candidates[i].string_ref.string : i \in 1..Len(candidates)}

\* C20: the list of best_completions holds no string twice, also when a
\* record is found by more than one phase (prefix, fuzzy subsequence,
\* Jaro-Winkler).
C20_NoDuplicateCompletions ==
    ret.op = "best_completions" =>
        \A i, j \in 1..Len(ret.result) :
            ret.result[i].string = ret.result[j].string => i = j

\* a completion of two or more records, one of them found by the prefix
\* phase and by the fuzzy subsequence phase
C20_Witness ==
    /\ ret.op = "best_completions"
    /\ Len(ret.query) >= 2
    /\ Len(ret.result) >= 2
    /\ \E i \in 1..Len(ret.result) :
          /\ ret.result[i].string \in CandidateStrings(scored_prefix_search(space, ret.query))
          /\ ret.result[i].string \in
                CandidateStrings(fuzzy_subsequence_full_database(
                                     space, ret.query, UnwrapOr(ret.limit, DEFAULT_LIMIT), 0))

-----------------------------------------------------------------------------
(* The buffer *)

\* the byte range [pointer, pointer + length) of an index entry
ByteRange(ref_info) == ref_info.pointer .. (ref_info.pointer + ref_info.length - 1)

RECURSIVE SumOfLengths(_)
SumOfLengths(refs) == IF refs = << >> THEN 0 ELSE Head(refs).length + SumOfLengths(Tail(refs))

\* C24: in every state of the store the byte ranges of the index entries are
\* pairwise disjoint and lie within [0, used_bytes), used_bytes is the sum of
\* the entry lengths, and used_bytes is at most capacity.
C24_BufferLayout ==
    /\ \A i, j \in 1..Len(space.string_refs) :
          i # j => ByteRange(space.string_refs[i]) \cap ByteRange(space.string_refs[j]) = {}
    /\ \A i \in 1..Len(space.string_refs) :
          ByteRange(space.string_refs[i]) \subseteq 0..(space.used_bytes - 1)
    /\ space.used_bytes = SumOfLengths(space.string_refs)
    /\ space.used_bytes <= space.capacity

\* a store that has grown, holds several entries and has merged a duplicate
C24_Witness ==
    /\ space.capacity > INITIAL_HEAP_SIZE
    /\ Len(space.string_refs) >= 3
    /\ \E i \in 1..Len(space.string_refs) : space.string_refs[i].frequency >= 2

InsertOps == {"insert_string", "insert_string_with_age"}

\* the sequence without its element at the 1-based position
RemoveAt(seq, index) == SubSeq(seq, 1, index - 1) \o SubSeq(seq, index + 1, Len(seq))

\* C25: an insert of n bytes that finds capacity - used_bytes < n grows the
\* buffer to capacity + max(capacity, n); every record stored before keeps
\* its bytes, frequency, age_days and place in the index, the new record is
\* added, and the rewritten offsets cover [0, used_bytes) without holes.
C25_GrowthKeepsRecords ==
    [][ ( /\ nops' = nops + 1
          /\ ret'.op \in InsertOps
          /\ ret'.result = "Ok"
          /\ IndexOf(space, ret'.string) = {}
          /\ space.capacity - space.used_bytes < Len(ret'.string) )
        => /\ space'.capacity = space.capacity + Max(space.capacity, Len(ret'.string))
           /\ \E at \in IndexOf(space', ret'.string) :
                 RemoveAt(get_all_strings(space'), at) = get_all_strings(space)
           /\ space'.used_bytes = space.used_bytes + Len(ret'.string)
           /\ \A b \in 0..(space'.used_bytes - 1) :
                 \E i \in 1..Len(space'.string_refs) : b \in ByteRange(space'.string_refs[i])
      ]_vars

\* an insert has just grown the buffer of a store of two or more records:
\* the new string is the last in the buffer, beyond the initial capacity
C25_Witness ==
    /\ ret.op \in InsertOps
    /\ ret.result = "Ok"
    /\ space.capacity = 2 * INITIAL_HEAP_SIZE
    /\ space.used_bytes > INITIAL_HEAP_SIZE
    /\ Len(space.string_refs) >= 3
    /\ IndexOf(space, ret.string) # {}
    /\ PointerOf(space, ret.string) = space.used_bytes - Len(ret.string)
    /\ space.used_bytes - Len(ret.string) <= INITIAL_HEAP_SIZE

\* C26: an insert of a string that is already a key changes nothing but the
\* frequency and the age_days of that entry.
C26_DuplicateInsertFrame ==
    [][ ( /\ nops' = nops + 1
          /\ ret'.op \in InsertOps
          /\ IndexOf(space, ret'.string) # {} )
        => /\ Len(space'.string_refs) = Len(space.string_refs)
           /\ space'.used_bytes = space.used_bytes
           /\ space'.capacity = space.capacity
           /\ space'.buffer = space.buffer
           /\ \A i \in 1..Len(space.string_refs) :
                 /\ space'.string_refs[i].pointer = space.string_refs[i].pointer
                 /\ space'.string_refs[i].length = space.string_refs[i].length
                 /\ i \notin IndexOf(space, ret'.string)
                       => space'.string_refs[i] = space.string_refs[i]
      ]_vars

\* a duplicate insert has raised the frequency of an entry and refreshed its
\* age_days, next to an entry that it left alone
C26_Witness ==
    /\ ret.op = "insert_string"
    /\ ret.result = "Ok"
    /\ Len(space.string_refs) >= 2
    /\ \E i \in IndexOf(space, ret.string) :
          /\ space.string_refs[i].frequency = 3
          /\ space.string_refs[i].age_days = today
          /\ space.string_refs[i].pointer < space.used_bytes - space.string_refs[i].length

-----------------------------------------------------------------------------
(* The server loop *)

\* C23: at most one connection is serviced at a time: a request is read from
\* a connection only while it is the only connection with a session, so a
\* second connection is not read from before the session of the first ended.
C23_OneSessionAtATime ==
    [][ (nops' = nops + 1 /\ ret'.op = "handle_client")
        => conn.sessions = {ret'.connection} ]_vars

\* a request of the first connection has been answered while a second
\* client has connected and waits to be accepted
C23_Witness ==
    /\ ret.op = "handle_client"
    /\ ret.connection = 1
    /\ ret.written # << >>
    /\ conn.sessions = {1}
    /\ conn.connected = 2
    /\ conn.accepted = 1

-----------------------------------------------------------------------------
(* The completions *)

\* a query that is to be accepted: not empty, no control char, no U+FFFD,
\* at most 50 bytes, and not a single char that is not alphanumeric
AcceptableQuery(query) ==
    /\ query # << >>
    /\ ~HasControl(query)
    /\ ~HasReplacement(query)
    /\ ~OneCharNotAlphanumeric(query)
    /\ Len(query) <= MAX_CHARS

\* the stored records whose bytes begin with the query
BeginningWith(ss, query) ==
    {r \in Range(get_all_strings(ss)) : StartsWith(r.string, query)}

\* C21: with m the number of stored records whose bytes begin with the valid
\* query q, best_completions(q, limit) returns at least min(limit, m)
\* records, its first min(limit, m) records begin with q byte for byte, and
\* it returns exactly limit records when m is at least limit.
C21_PrefixMatchesComeFirst ==
    (ret.op = "best_completions" /\ AcceptableQuery(ret.query)) =>
        LET limit == UnwrapOr(ret.limit, DEFAULT_LIMIT)
            m == Cardinality(BeginningWith(space, ret.query))
        IN  /\ Len(ret.result) >= Min(limit, m)
            /\ \A i \in 1..Min(limit, m) : StartsWith(ret.result[i].string, ret.query)
            /\ m >= limit => Len(ret.result) = limit

\* C22: for a query of one alphanumeric char, best_completions returns the
\* first limit records, by descending frequency, of the records whose bytes
\* begin with the char, and no other record.
C22_SingleCharIsPrefixOnly ==
    ( /\ ret.op = "best_completions"
      /\ Len(Chars(ret.query)) = 1
      /\ IsAlphanumeric(Chars(ret.query)[1]) ) =>
        LET limit == UnwrapOr(ret.limit, DEFAULT_LIMIT)
            starts == BeginningWith(space, ret.query)
        IN  /\ Len(ret.result) = Min(limit, Cardinality(starts))
            /\ \A i \in 1..Len(ret.result) : ret.result[i] \in starts
            /\ \A i, j \in 1..Len(ret.result) :
                  /\ i < j => ret.result[i].frequency >= ret.result[j].frequency
                  /\ ret.result[i] = ret.result[j] => i = j
            /\ \A r \in starts \ Range(ret.result) :
                  \A i \in 1..Len(ret.result) : ret.result[i].frequency >= r.frequency

\* the candidates of best_completions with their final scores, in the order
\* of the merge
ScoredCandidates(ss, query, limit, now) ==
    LET all_candidates == progressive_algorithm_execution(ss, query, limit)
        merged == MergeLoop(all_candidates, << >>)
    IN  merge_and_score_candidates(all_candidates, query, ss, now, [i \in 1..Len(merged) |-> i])

\* C27: every candidate of best_completions is scored by every algorithm
\* that matches it: for a record that begins with the query and is found by
\* the fuzzy subsequence search as well, the prefix score P = 1 and the
\* fuzzy score F of that search both enter the weighted score.
C27_AllAlgorithmsScoreACandidate ==
    (ret.op = "best_completions" /\ validate_query(ret.query) /\ Len(ret.query) >= 2) =>
        LET limit == UnwrapOr(ret.limit, DEFAULT_LIMIT)
            fuzzy == fuzzy_subsequence_full_database(space, ret.query, limit, 0)
            scored == ScoredCandidates(space, ret.query, limit, ret.now)
        IN  \A i \in 1..Len(scored) : \A k \in 1..Len(fuzzy) :
                ( /\ fuzzy[k].string_ref.string = scored[i].string_ref.string
                  /\ StartsWith(scored[i].string_ref.string, ret.query) )
                => /\ AlgorithmScore(scored[i], "Prefix") = SCALE
                   /\ AlgorithmScore(scored[i], "FuzzySubseq") = fuzzy[k].normalized_score

\* the table of weights: (prefix, fuzzy, Jaro, substring) in hundredths
WeightTable(query_len) ==
    IF query_len <= 2 THEN <<45, 35, 15, 5>>
    ELSE IF query_len <= 4 THEN <<40, 30, 20, 10>>
    ELSE IF query_len <= 6 THEN <<35, 25, 25, 15>>
    ELSE <<25, 20, 35, 20>>

\* C28: the weights that combine the scores of a query are those of the
\* table, by the length of the query in bytes.
C28_WeightsOfTheTable ==
    ( /\ ret.op = "best_completions"
      /\ validate_query(ret.query)
      /\ Len(ret.query) >= 2
      /\ ret.result # << >> ) =>
        LET weights == get_dynamic_weights(ret.query)
            table == WeightTable(Len(ret.query))
        IN  /\ weights.prefix * 100 = table[1] * SCALE
            /\ weights.fuzzy_subseq * 100 = table[2] * SCALE
            /\ weights.jaro_winkler * 100 = table[3] * SCALE
            /\ weights.substring * 100 = table[4] * SCALE

\* C29: the match-span score is 0 when fewer than two chars are matched, and
\* otherwise (sum of the gaps between consecutive matched indices / (k - 1))
\* / length of the candidate in chars; it is never the result of a division
\* by zero.
C29_MatchSpanScore ==
    ret.op = "score_match_span_chars" =>
        LET m == is_subsequence(ret.query, ret.candidate)
        IN  /\ ~IsNaN(ret.result)
            /\ IF m = None \/ Len(m[1]) < 2
               THEN ret.result.n = 0
               ELSE FracEq(ret.result,
                           Frac(SumGaps(m[1], 2), (Len(m[1]) - 1) * Len(Chars(ret.candidate))))

\* the 1-based positions of the string in a list of records
PositionsOf(records, string) == {i \in 1..Len(records) : records[i].string = string}

\* C30: for a query q of two bytes or more and a limit that is at least the
\* number of records beginning with q: of two records that begin with q,
\* have the same age_days and are at most 3 * |q| bytes long, the one of
\* higher frequency comes earlier in best_completions(q, limit).
C30_HigherFrequencyFirst ==
    ( /\ ret.op = "best_completions"
      /\ AcceptableQuery(ret.query)
      /\ Len(ret.query) >= 2
      /\ UnwrapOr(ret.limit, DEFAULT_LIMIT) >= Cardinality(BeginningWith(space, ret.query)) ) =>
        \A a, b \in BeginningWith(space, ret.query) :
            ( /\ a.age_days = b.age_days
              /\ Len(a.string) <= 3 * Len(ret.query)
              /\ Len(b.string) <= 3 * Len(ret.query)
              /\ a.frequency > b.frequency )
            => \E i \in PositionsOf(ret.result, a.string) :
                  \E j \in PositionsOf(ret.result, b.string) : i < j

=============================================================================
